---------------------------- MODULE Spec2Model ----------------------------
(***************************************************************************)
(* A model of the argus arbitrage monitor (JumpiiX/argus):                 *)
(*   - the ArbitrageAnalyzer (src/src/analytics/mod.rs),                   *)
(*   - ArbitrageService::check_arbitrage_opportunity and its gas           *)
(*     estimators (src/src/service.rs, src/src/rpc/mod.rs),                *)
(*   - the pool-state decoders and quote calculators of the two venues     *)
(*     (src/src/dex/uniswap_v4/pool.rs, src/src/dex/aerodrome/pool.rs).    *)
(*                                                                         *)
(* Numbers.  The program computes with u64, u128, U256 and rust_decimal's  *)
(* Decimal (a sign, a 96-bit mantissa and a scale 0..28).  None of these   *)
(* fits TLC's 32-bit integers, so a natural number is a sequence of limbs  *)
(* in radix 10^4, least significant limb first and without high zero       *)
(* limbs (zero is << >>), and a Decimal is a record [neg, m, s] standing   *)
(* for (-1)^neg * m / 10^s.  Decimal compares by value in Rust (1.0 ==     *)
(* 1.00), so the model keeps every Decimal in the one form whose mantissa  *)
(* has no trailing decimal zero: equal values are equal records.           *)
(***************************************************************************)
EXTENDS Integers, Sequences, FiniteSets, TLC

VARIABLES
    eth_price_usd,  \* ArbitrageAnalyzer.eth_price_usd, behind the service's Mutex
    mutex,          \* the call holding the analyzer's Mutex, 0 when it is free
    poisoned,       \* whether a call panicked while it held the Mutex
    pc,             \* where each check_arbitrage_opportunity call stands
    call,           \* each call's locals: what it has read and computed
    an_args,        \* the arguments of one analyze_opportunity_with_gas call
    an_ret,         \* what that call returned
    dx_args,        \* one call of a venue client: the operation, what the
                    \* contract answers, the amount and the direction
    dx_ret,         \* what that call returned
    dx_log,         \* the venue calls made before this one, with their results
    provider_calls  \* the eth_call requests an RpcClient call sent to the oracle

vars ==
    <<eth_price_usd, mutex, poisoned, pc, call, an_args, an_ret, dx_args, dx_ret,
      dx_log, provider_calls>>

svc_vars == <<mutex, poisoned, pc, call>>

an_vars == <<an_args, an_ret>>

dx_vars == <<dx_args, dx_ret, dx_log, provider_calls>>

Radix == 10 ^ 4

\* The element of a set of one element.
Only(S) == CHOOSE x \in S : TRUE

----------------------------------------------------------------------------
(* Natural numbers of any size.                                            *)

RECURSIVE BigNorm(_)
BigNorm(a) ==
    Only({IF x = << >> THEN << >>
          ELSE IF x[Len(x)] = 0 THEN BigNorm(SubSeq(x, 1, Len(x) - 1))
          ELSE x : x \in {a}})

RECURSIVE BigFromNat(_)
BigFromNat(n) ==
    IF n = 0 THEN << >> ELSE <<n % Radix>> \o BigFromNat(n \div Radix)

BigRest(a) == IF a = << >> THEN << >> ELSE Tail(a)

BigLow(a) == IF a = << >> THEN 0 ELSE Head(a)

RECURSIVE BigAddC(_, _, _)
BigAddC(a, b, c) ==
    Only({IF x = << >> /\ y = << >>
          THEN (IF k = 0 THEN << >> ELSE <<k>>)
          ELSE <<(BigLow(x) + BigLow(y) + k) % Radix>>
                   \o BigAddC(BigRest(x), BigRest(y),
                              (BigLow(x) + BigLow(y) + k) \div Radix) :
             x \in {a}, y \in {b}, k \in {c}})

BigAdd(a, b) == BigAddC(a, b, 0)

RECURSIVE BigCmpAt(_, _, _)
BigCmpAt(a, b, i) ==
    IF i = 0 THEN 0
    ELSE IF a[i] < b[i] THEN -1
    ELSE IF a[i] > b[i] THEN 1
    ELSE BigCmpAt(a, b, i - 1)

\* -1, 0 or 1 as a < b, a = b, a > b.
BigCmp(a, b) ==
    Only({IF Len(x) < Len(y) THEN -1
          ELSE IF Len(x) > Len(y) THEN 1
          ELSE BigCmpAt(x, y, Len(x)) : x \in {a}, y \in {b}})

BigLt(a, b) == BigCmp(a, b) = -1

BigLe(a, b) == BigCmp(a, b) # 1

RECURSIVE BigSubB(_, _, _)
BigSubB(a, b, w) ==
    IF a = << >> THEN << >>
    ELSE Only({<<IF d < 0 THEN d + Radix ELSE d>>
                   \o BigSubB(Tail(x), BigRest(y), IF d < 0 THEN 1 ELSE 0) :
                  x \in {a}, y \in {b}, d \in {Head(a) - BigLow(b) - w}})

\* a - b for b <= a.
BigSub(a, b) == BigNorm(BigSubB(a, b, 0))

RECURSIVE BigMulSmallC(_, _, _)
BigMulSmallC(a, k, c) ==
    IF a = << >> THEN BigFromNat(c)
    ELSE Only({<<d % Radix>> \o BigMulSmallC(Tail(x), k, d \div Radix) :
                  x \in {a}, d \in {Head(a) * k + c}})

\* a * k for a machine number 0 <= k <= Radix.
BigMulSmall(a, k) == BigNorm(BigMulSmallC(a, k, 0))

\* a * b for values a and b, a limb of b at a time.
RECURSIVE BigMulLimbs(_, _)
BigMulLimbs(a, b) ==
    IF a = << >> \/ b = << >> THEN << >>
    ELSE Only({BigAdd(BigMulSmall(a, Head(b)), BigNorm(<<0>> \o rest)) :
                  rest \in {BigMulLimbs(a, Tail(b))}})

\* a * b.  (The operands are computed once, as the one element of a set,
\* before they are used: so are the intermediate values of the operators
\* below.)
BigMul(a, b) == Only({BigMulLimbs(x, y) : x \in {a}, y \in {b}})

\* Quotient and remainder of a by a machine number 0 < k <= Radix, high limb
\* first; i is the limb being divided, r the remainder carried into it.
RECURSIVE BigDivSmallAt(_, _, _, _)
BigDivSmallAt(a, k, i, r) ==
    IF i = 0 THEN [q |-> << >>, r |-> r]
    ELSE Only({Only({[q |-> rest.q \o <<x \div k>>, r |-> rest.r] :
                        rest \in {BigDivSmallAt(a, k, i - 1, x % k)}}) :
                  x \in {r * Radix + a[i]}})

BigDivSmall(a, k) ==
    Only({BigNorm(BigDivSmallAt(x, k, Len(x), 0).q) : x \in {a}})

BigModSmall(a, k) == Only({BigDivSmallAt(x, k, Len(x), 0).r : x \in {a}})

RECURSIVE BigPow10(_)
BigPow10(k) ==
    IF k >= 4 THEN <<0>> \o BigPow10(k - 4) ELSE BigFromNat(10 ^ k)

\* acc * 2^k.
RECURSIVE BigShl(_, _)
BigShl(acc, k) ==
    IF k = 0 THEN acc
    ELSE Only({BigShl(next, k - step) :
                  step \in {IF k >= 8 THEN 8 ELSE k},
                  next \in {BigMulSmall(acc, 2 ^ (IF k >= 8 THEN 8 ELSE k))}})

BigPow2(k) == BigShl(<<1>>, k)

\* The largest digit d in lo .. hi with b * d <= r, given b * lo <= r.
RECURSIVE BigQuotDigit(_, _, _, _)
BigQuotDigit(r, b, lo, hi) ==
    IF lo = hi THEN lo
    ELSE LET mid == (lo + hi + 1) \div 2
         IN  IF BigLe(BigMulSmall(b, mid), r)
             THEN BigQuotDigit(r, b, mid, hi)
             ELSE BigQuotDigit(r, b, lo, mid - 1)

\* Long division of a by b # 0, high limb first: i is the limb brought down,
\* q the quotient's limbs so far, r the remainder so far.  (The Len tests make
\* TLC compute a step's values before it recurses.)
RECURSIVE BigDivModAt(_, _, _, _, _)
BigDivModAt(a, b, i, q, r) ==
    IF i = 0 THEN [q |-> BigNorm(q), r |-> r]
    ELSE LET x  == BigNorm(<<a[i]>> \o r)
             d  == BigQuotDigit(x, b, 0, Radix - 1)
             r2 == BigSub(x, BigMulSmall(b, d))
             q2 == <<d>> \o q
         IN  IF Len(r2) >= 0 /\ Len(q2) >= 0
             THEN BigDivModAt(a, b, i - 1, q2, r2)
             ELSE [q |-> << >>, r |-> << >>]

BigDivMod(a, b) == BigDivModAt(a, b, Len(a), << >>, << >>)

BigDiv(a, b) == BigDivMod(a, b).q

BigMod(a, b) == BigDivMod(a, b).r

----------------------------------------------------------------------------
(* rust_decimal::Decimal, by value.                                        *)

\* 2^96: a Decimal's mantissa is below it, and its scale is at most 28.
MantissaLimit == BigPow2(96)

RECURSIVE DecStrip(_, _)
DecStrip(m, s) ==
    Only({IF k > 0 /\ x # << >> /\ Head(x) % 10 = 0
          THEN DecStrip(BigDivSmall(x, 10), k - 1)
          ELSE [m |-> x, s |-> k] : x \in {m}, k \in {s}})

\* The Decimal (-1)^neg * m / 10^s; zero has one form.
Dec(neg, m, s) ==
    Only({IF n.m = << >> THEN [neg |-> FALSE, m |-> << >>, s |-> 0]
          ELSE [neg |-> neg, m |-> n.m, s |-> n.s] : n \in {DecStrip(m, s)}})

\* Decimal::from(n), and the literal m / 10^s written with machine numbers.
DecFromInt(n) == Dec(n < 0, BigFromNat(IF n < 0 THEN -n ELSE n), 0)

DecLit(m, s) == Dec(m < 0, BigFromNat(IF m < 0 THEN -m ELSE m), s)

DecZero == DecFromInt(0)

DecOne == DecFromInt(1)

\* d's mantissa at the scale s >= d.s.
DecMantissaAt(d, s) == Only({BigMul(x.m, BigPow10(s - x.s)) : x \in {d}})

DecMaxScale(a, b) == IF a.s >= b.s THEN a.s ELSE b.s

DecNeg(a) == Only({Dec(~x.neg, x.m, x.s) : x \in {a}})

DecAbs(a) == Only({Dec(FALSE, x.m, x.s) : x \in {a}})

\* n / d rounded to an integer, ties to the even one.
BigRoundUp(qr, twice) ==
    IF twice = 1 \/ (twice = 0 /\ BigLow(qr.q) % 2 = 1)
    THEN BigAdd(qr.q, <<1>>) ELSE qr.q

BigDivRound(n, d) ==
    Only({Only({BigRoundUp(qr, twice) :
                   twice \in {BigCmp(BigMulSmall(qr.r, 2), y)}}) :
             y \in {d}, qr \in {BigDivMod(n, d)}})

\* The number of decimal digits of n.
BigDigits(n) ==
    Only({IF x = << >> THEN 0
          ELSE 4 * (Len(x) - 1)
               + (IF x[Len(x)] >= 1000 THEN 4 ELSE IF x[Len(x)] >= 100 THEN 3
                  ELSE IF x[Len(x)] >= 10 THEN 2 ELSE 1) : x \in {n}})

\* The limbs of n from the one of weight Radix^k on, and those below it.
BigHighLimbs(n, k) == IF k >= Len(n) THEN << >> ELSE SubSeq(n, k + 1, Len(n))

BigLowLimbs(n, k) == IF k >= Len(n) THEN n ELSE SubSeq(n, 1, k)

\* Quotient and remainder of n by 10^e: whole limbs are split off, and the
\* rest is a division by a machine number.
BigDivModPow10(n, e) ==
    Only({Only({Only({[q |-> BigNorm(qr.q),
                       r |-> BigNorm(BigLowLimbs(x, e \div 4) \o <<qr.r>>)] :
                         qr \in {BigDivSmallAt(high, 10 ^ (e % 4), Len(high), 0)}}) :
                   high \in {BigHighLimbs(x, e \div 4)}}) :
             x \in {n}})

\* n / 10^e rounded to an integer, ties to the even one.
BigDivRoundPow10(n, e) ==
    Only({Only({BigRoundUp(qr, twice) :
                   twice \in {BigCmp(BigMulSmall(qr.r, 2), BigPow10(e))}}) :
             qr \in {BigDivModPow10(n, e)}})

\* n / d * 10^s rounded to an integer.  (A power of ten d is divided by as
\* BigDivRoundPow10 does, which gives the same number in fewer steps.)
BigScaledQuotient(n, d, s) ==
    Only({IF y = BigPow10(BigDigits(y) - 1) /\ s < BigDigits(y)
          THEN BigDivRoundPow10(n, BigDigits(y) - 1 - s)
          ELSE BigDivRound(BigMul(n, BigPow10(s)), y) : y \in {d}})

\* The largest scale s0, s0 - 1, .., 0 at which n / d rounds to a mantissa below
\* 2^96, or -1 when its integer part alone does not fit.
RECURSIVE DecFitScale(_, _, _)
DecFitScale(n, d, s0) ==
    IF s0 < 0 THEN -1
    ELSE IF BigLt(BigScaledQuotient(n, d, s0), MantissaLimit) THEN s0
    ELSE DecFitScale(n, d, s0 - 1)

\* The scale the search starts from.  n / d is above 10^(BigDigits(n) -
\* BigDigits(d) - 1), so that at a scale above 29 - (BigDigits(n) -
\* BigDigits(d)) its mantissa is 10^29 or more and does not fit.
DecFitFrom(n, d) ==
    Only({IF 29 - k < 28 THEN 29 - k ELSE 28 :
             k \in {BigDigits(n) - BigDigits(d)}})

\* Whether n / d is beyond every Decimal, its integer part not below 2^96: the
\* operation that computes it panics.
DecOverflows(n, d) ==
    Only({\/ DecFitFrom(x, y) < 0
          \/ ~BigLt(BigScaledQuotient(x, y, 0), MantissaLimit) :
             x \in {n}, y \in {d}})

\* The Decimal nearest to (-1)^neg * n / d, d # 0, at the largest scale that
\* holds it: how rust_decimal rounds a product or quotient it cannot hold exactly.
DecOfRatio(neg, n, d) ==
    Only({Only({Dec(neg, BigScaledQuotient(x, y, s), s) :
                   s \in {DecFitScale(x, y, DecFitFrom(x, y))}}) :
             x \in {n}, y \in {d}})

\* (-1)^neg * m / 10^s as a Decimal: a sum whose mantissa at the larger scale
\* does not fit is rounded to the largest scale that holds it.
DecFit(neg, m, s) ==
    Only({IF BigLt(x, MantissaLimit) THEN Dec(neg, x, s)
          ELSE DecOfRatio(neg, x, BigPow10(s)) : x \in {m}})

\* a + b for values a and b, their mantissas taken at the scale s.
DecAddAt(a, b, s) ==
    Only({IF a.neg = b.neg THEN DecFit(a.neg, BigAdd(ma, mb), s)
          ELSE IF BigLe(mb, ma) THEN Dec(a.neg, BigSub(ma, mb), s)
          ELSE Dec(b.neg, BigSub(mb, ma), s) :
             ma \in {DecMantissaAt(a, s)}, mb \in {DecMantissaAt(b, s)}})

DecAdd(a, b) == Only({DecAddAt(x, y, DecMaxScale(x, y)) : x \in {a}, y \in {b}})

DecSub(a, b) == DecAdd(a, DecNeg(b))

\* The Decimal of a product's sign, mantissa m and scale s.
DecOfProduct(neg, m, s) ==
    IF BigLt(m, MantissaLimit) /\ s <= 28 THEN Dec(neg, m, s)
    ELSE DecOfRatio(neg, m, BigPow10(s))

DecMul(a, b) ==
    Only({Only({DecOfProduct(x.neg # y.neg, m, x.s + y.s) :
                   m \in {BigMul(x.m, y.m)}}) :
             x \in {a}, y \in {b}})

DecMulOverflows(a, b) ==
    Only({DecOverflows(BigMul(x.m, y.m), BigPow10(x.s + y.s)) :
             x \in {a}, y \in {b}})

\* a / b for b # 0 (rust_decimal panics on b = 0).
DecDiv(a, b) ==
    Only({DecOfRatio(x.neg # y.neg, BigMul(x.m, BigPow10(y.s)),
                     BigMul(y.m, BigPow10(x.s))) : x \in {a}, y \in {b}})

DecDivOverflows(a, b) ==
    Only({DecOverflows(BigMul(x.m, BigPow10(y.s)), BigMul(y.m, BigPow10(x.s))) :
             x \in {a}, y \in {b}})

\* round_dp(0): to an integer, ties to even.
DecRound0(a) ==
    Only({Dec(x.neg, BigDivRound(x.m, BigPow10(x.s)), 0) : x \in {a}})

\* a / 10^k, which is exact.
DecDivPow10(a, k) == Only({Dec(x.neg, x.m, x.s + k) : x \in {a}})

DecIsNeg(a) == a.neg

DecIsZero(a) == a.m = << >>

\* a > b, as Decimal's PartialOrd decides it.
DecGt(a, b) == Only({~d.neg /\ d.m # << >> : d \in {DecSub(a, b)}})

DecLe(a, b) == ~DecGt(a, b)

\* Whether rust_decimal holds d exactly: outside this its arithmetic rounds or
\* panics, and the model's inputs are chosen to stay inside.
DecExact(d) == BigLt(d.m, MantissaLimit) /\ d.s <= 28

----------------------------------------------------------------------------
(* ArbitrageAnalyzer (src/src/analytics/mod.rs).                           *)

None == [tag |-> "none"]

Ok(v) == [tag |-> "Ok", val |-> v]

Err(e) == [tag |-> "Err", err |-> e]

Panic(e) == [tag |-> "Panic", err |-> e]

\* ArbitrageAnalyzer::new.
analyzer_new == DecZero

\* update_eth_price: the new value of the analyzer's field.
update_eth_price(self, price) == price

recommended_action_ge(net_profit_usd) ==
    IF ~DecIsNeg(net_profit_usd) THEN "ArbitrageDetected" ELSE "NoArbitrage"

\* The recommendation of analyze_opportunity_with_gas.
recommended_action(net_profit_usd) ==
    IF DecGt(net_profit_usd, DecZero) THEN "ArbitrageDetected" ELSE "NoArbitrage"

potential_profit_signed(uniswap_price, aerodrome_price, trade_size_eth) ==
    DecMul(DecSub(uniswap_price, aerodrome_price), trade_size_eth)

\* potential_profit_usd of analyze_opportunity_with_gas.
potential_profit(uniswap_price, aerodrome_price, trade_size_eth) ==
    DecMul(DecAbs(DecSub(uniswap_price, aerodrome_price)), trade_size_eth)

\* The ArbitrageSummary of the three amounts.
ArbitrageSummary(potential_profit_usd, total_gas_cost_usd, net_profit_usd) ==
    [potential_profit_usd |-> potential_profit_usd,
     total_gas_cost_usd   |-> total_gas_cost_usd,
     net_profit_usd       |-> net_profit_usd,
     recommended_action   |-> recommended_action(net_profit_usd)]

net_profit_summary(potential_profit_usd, total_gas_cost_usd) ==
    ArbitrageSummary(potential_profit_usd, total_gas_cost_usd,
                     DecSub(potential_profit_usd, total_gas_cost_usd))

\* analyze_opportunity_with_gas: self is the analyzer's eth_price_usd, which
\* the function does not read, as it does not read _cex_price.
\* price_diff_per_eth * trade_size_eth panics when the product is beyond every
\* Decimal.
analyze_opportunity_with_gas(self, uniswap_quote, aerodrome_quote, trade_size_eth, cex_price, eth_gas_cost_usd, base_gas_cost_usd) ==
    IF DecMulOverflows(DecAbs(DecSub(uniswap_quote.effective_price,
                                     aerodrome_quote.effective_price)),
                       trade_size_eth)
    THEN Panic("Multiplication overflowed")
    ELSE Ok(net_profit_summary(
                potential_profit(uniswap_quote.effective_price,
                                 aerodrome_quote.effective_price, trade_size_eth),
                DecAdd(eth_gas_cost_usd, base_gas_cost_usd)))

\* create_dex_details.
create_dex_details(self, quote, gas_cost_usd) ==
    [effective_price_usd    |-> quote.effective_price,
     price_impact_percent   |-> quote.price_impact,
     estimated_gas_cost_usd |-> gas_cost_usd]

\* A SwapQuote.
SwapQuote(amount_out, effective_price, price_impact, gas_estimate) ==
    [amount_out      |-> amount_out,
     effective_price |-> effective_price,
     price_impact    |-> price_impact,
     gas_estimate    |-> gas_estimate]

----------------------------------------------------------------------------
(* The analyzer alone: analyze_opportunity_with_gas applied to arguments   *)
(* drawn from small sets.  Prices are written in tenths of a dollar.       *)

PriceTenths == {30000, 30005, 30100}

TradeSizes == {-1, 0, 1, 10}

GasUsd == {0, 3, 5}

StoredPrices == {DecZero, DecFromInt(3000)}

AnalyzerArgs(u10, a10, size, g1, g2) ==
    [uniswap_quote     |-> SwapQuote(DecMul(DecLit(u10, 1), DecFromInt(size)),
                                     DecLit(u10, 1), DecZero, 150000),
     aerodrome_quote   |-> SwapQuote(DecMul(DecLit(a10, 1), DecFromInt(size)),
                                     DecLit(a10, 1), DecZero, 80000),
     trade_size_eth    |-> DecFromInt(size),
     cex_price         |-> DecFromInt(3000),
     eth_gas_cost_usd  |-> DecFromInt(g1),
     base_gas_cost_usd |-> DecFromInt(g2)]

InitAnalyzer ==
    /\ eth_price_usd \in StoredPrices
    /\ \E u10 \in PriceTenths, a10 \in PriceTenths, size \in TradeSizes,
          g1 \in GasUsd, g2 \in GasUsd :
          an_args = AnalyzerArgs(u10, a10, size, g1, g2)
    /\ an_ret = None
    /\ mutex = 0
    /\ poisoned = FALSE
    /\ pc = << >>
    /\ call = << >>
    /\ dx_args = None
    /\ dx_ret = None
    /\ dx_log = << >>
    /\ provider_calls = 0

Analyze ==
    /\ an_ret = None
    /\ an_ret' = analyze_opportunity_with_gas(
                     eth_price_usd, an_args.uniswap_quote, an_args.aerodrome_quote,
                     an_args.trade_size_eth, an_args.cex_price,
                     an_args.eth_gas_cost_usd, an_args.base_gas_cost_usd)
    /\ UNCHANGED <<eth_price_usd, an_args, svc_vars, dx_vars>>

UpdateStoredPrice ==
    /\ \E price \in StoredPrices :
          /\ price # eth_price_usd
          /\ eth_price_usd' = update_eth_price(eth_price_usd, price)
    /\ UNCHANGED <<an_vars, svc_vars, dx_vars>>

NextAnalyzer == Analyze \/ UpdateStoredPrice

SpecAnalyzer == InitAnalyzer /\ [][NextAnalyzer]_vars

IntAbs(x) == IF x < 0 THEN -x ELSE x

\* C1: analyze_opportunity_with_gas returns ArbitrageDetected if and only if the
\* net_profit_usd it returns is strictly greater than zero; a net profit of
\* exactly zero, or a negative one, gives NoArbitrage.
C1_DetectedIffNetPositive ==
    an_ret.tag = "Ok" =>
        LET net    == an_ret.val.net_profit_usd
            action == an_ret.val.recommended_action
        IN  /\ action \in {"ArbitrageDetected", "NoArbitrage"}
            /\ (action = "ArbitrageDetected") <=> (~net.neg /\ net.m # << >>)
            /\ (net.neg \/ net.m = << >>) => action = "NoArbitrage"

\* A tie: a nonzero potential profit that the gas eats exactly.
C1_Witness ==
    /\ an_ret.tag = "Ok"
    /\ an_ret.val.potential_profit_usd = DecFromInt(5)
    /\ an_ret.val.net_profit_usd = DecZero
    /\ an_ret.val.recommended_action = "NoArbitrage"

\* The summary the arguments (u10, a10, size, g1, g2) must give, computed with
\* machine integers in tenths of a dollar.
ExpectedSummary(u10, a10, size, g1, g2) ==
    LET potential10 == IntAbs(u10 - a10) * size
        gas         == g1 + g2
        net10       == potential10 - 10 * gas
    IN  [potential_profit_usd |-> DecLit(potential10, 1),
         total_gas_cost_usd   |-> DecFromInt(gas),
         net_profit_usd       |-> DecLit(net10, 1),
         recommended_action   |->
             IF net10 > 0 THEN "ArbitrageDetected" ELSE "NoArbitrage"]

\* C2: the returned summary has potential_profit_usd = |uniswap effective_price
\* - aerodrome effective_price| * trade_size, total_gas_cost_usd = eth gas +
\* base gas and net_profit_usd = potential - total gas; prices 3010 and 3000,
\* size 10, gas 5 and 3 give 100, 8, 92 and ArbitrageDetected, and a price
\* difference of 0.5 with the same size and gas gives net -3 and NoArbitrage.
C2_SummaryArithmetic ==
    /\ \A u10 \in PriceTenths, a10 \in PriceTenths, size \in TradeSizes,
          g1 \in GasUsd, g2 \in GasUsd :
          (an_args = AnalyzerArgs(u10, a10, size, g1, g2) /\ an_ret # None)
              => an_ret = Ok(ExpectedSummary(u10, a10, size, g1, g2))
    /\ (an_args = AnalyzerArgs(30100, 30000, 10, 5, 3) /\ an_ret # None)
          => an_ret = Ok([potential_profit_usd |-> DecFromInt(100),
                          total_gas_cost_usd   |-> DecFromInt(8),
                          net_profit_usd       |-> DecFromInt(92),
                          recommended_action   |-> "ArbitrageDetected"])
    /\ (an_args = AnalyzerArgs(30005, 30000, 10, 5, 3) /\ an_ret # None)
          => /\ an_ret.tag = "Ok"
             /\ an_ret.val.net_profit_usd = DecFromInt(-3)
             /\ an_ret.val.recommended_action = "NoArbitrage"

\* The spec's example has been analysed, with the lower price on Uniswap's side.
C2_Witness ==
    /\ an_args = AnalyzerArgs(30000, 30100, 10, 5, 3)
    /\ an_ret.tag = "Ok"
    /\ an_ret.val.net_profit_usd = DecFromInt(92)

----------------------------------------------------------------------------
(* RpcClient (src/src/rpc/mod.rs) and the gas estimators of the service    *)
(* (src/src/service.rs), as functions of what the provider answered.       *)

Some(v) == [tag |-> "Some", val |-> v]

Nothing == [tag |-> "Nothing"]

\* A provider answer: a transport or node error, or a value.
ProviderError == [tag |-> "ProviderError"]

Answer(v) == [tag |-> "Answer", val |-> v]

U64Limit == BigPow2(64)

U128Limit == BigPow2(128)

U256Limit == BigPow2(256)

\* U256::from_big_endian of a byte sequence: acc is the value of the bytes
\* before the i-th.  (Len(next) >= 0 makes TLC compute next before it recurses.)
RECURSIVE BigEndianFrom(_, _, _)
BigEndianFrom(bytes, i, acc) ==
    IF i > Len(bytes) THEN acc
    ELSE LET next == BigAdd(BigMulSmall(acc, 256), BigFromNat(bytes[i]))
         IN  IF Len(next) >= 0 THEN BigEndianFrom(bytes, i + 1, next) ELSE << >>

from_big_endian(bytes) == BigEndianFrom(bytes, 1, << >>)

\* U256::as_u64 and U256::as_u128, which panic on a value that does not fit.
as_u64(x) ==
    IF BigLt(x, U64Limit) THEN Ok(x)
    ELSE Panic("Integer overflow when casting to u64")

as_u128(x) ==
    IF BigLt(x, U128Limit) THEN Ok(x)
    ELSE Panic("Integer overflow when casting to u128")

NoEthBaseFee == "RpcError: Cannot get base fee from RPC"

NoBaseBaseFee == "RpcError: Cannot get base fee from Base RPC"

\* ChainConfig.chain_id as Config::from_env sets it.
eth_chain_id == 1

base_chain_id == 8453

\* Typical gas units with the mainnet figure for a chain it does not know.
get_typical_swap_gas_or_default(chain_id) ==
    IF chain_id = 8453 THEN Ok(80000) ELSE Ok(150000)

get_typical_swap_gas(chain_id) ==
    IF chain_id = 1 THEN Ok(150000)
    ELSE IF chain_id = 8453 THEN Ok(80000)
    ELSE Err("RpcError: Unsupported chain ID")

\* get_latest_block: the answer holds Nothing when the node knows no block.
get_latest_block(answer) ==
    IF answer.tag = "ProviderError" THEN Err("RpcError: Failed to get latest block")
    ELSE IF answer.val.tag = "Nothing" THEN Err("RpcError: Latest block not found")
    ELSE Ok(answer.val.val)

get_max_priority_fee_per_gas(answer) ==
    IF answer.tag = "ProviderError"
    THEN Err("RpcError: Cannot get priority fee from RPC")
    ELSE as_u64(answer.val)

\* The L1 fee by capability detection: the oracle is asked on every chain and
\* a chain without one counts as a fee of 0.
estimate_l1_data_fee_by_capability(chain_id, answer) ==
    IF answer.tag = "ProviderError" THEN Ok(<< >>)
    ELSE IF Len(answer.val) < 32
    THEN Err("RpcError: Invalid L1 fee response from oracle")
    ELSE as_u64(from_big_endian(SubSeq(answer.val, 1, 32)))

\* estimate_l1_data_fee: answer is the oracle's answer to getL1Fee(bytes), read
\* on chain 8453 only.
estimate_l1_data_fee(chain_id, answer) ==
    IF chain_id # 8453 THEN Ok(<< >>)
    ELSE IF answer.tag = "ProviderError"
    THEN Err("RpcError: Failed to get L1 fee from oracle")
    ELSE IF Len(answer.val) < 32
    THEN Err("RpcError: Invalid L1 fee response from oracle")
    ELSE as_u64(from_big_endian(SubSeq(answer.val, 1, 32)))

base_fee_or_default(block, message) ==
    IF block.base_fee_per_gas.tag = "Nothing" THEN Ok(BigPow10(9))
    ELSE Ok(block.base_fee_per_gas.val)

\* latest_block.base_fee_per_gas.ok_or_else(..)? of both estimators.
base_fee_of(block, message) ==
    IF block.base_fee_per_gas.tag = "Nothing"
    THEN Err(message)
    ELSE Ok(block.base_fee_per_gas.val)

\* U256 arithmetic panics on overflow.
U256Checked(x) ==
    IF BigLt(x, U256Limit) THEN Ok(x) ELSE Panic("arithmetic operation overflow")

\* The typical gas units without the 10% margin.
gas_without_buffer(gas_estimate_raw) == BigFromNat(gas_estimate_raw)

\* gas_estimate * 110 / 100.
gas_with_buffer(gas_estimate_raw) ==
    BigDivSmall(BigMulSmall(BigFromNat(gas_estimate_raw), 110), 100)

buffered_cost_wei(gas_estimate_raw, gas_price_wei) ==
    IF gas_price_wei.tag # "Ok" THEN gas_price_wei
    ELSE U256Checked(BigMul(gas_with_buffer(gas_estimate_raw), gas_price_wei.val))

\* gas_with_buffer * (base_fee_per_gas + priority_fee), in wei.
swap_cost_wei(gas_estimate_raw, base_fee_per_gas, priority_fee) ==
    buffered_cost_wei(gas_estimate_raw,
                      U256Checked(BigAdd(base_fee_per_gas, priority_fee)))

\* Decimal::from_str(&wei.to_string()) / 10^18 * eth_price_usd: the string of a
\* number of 2^96 or more does not parse into a Decimal.
wei_cost_usd(cost_wei, price_usd) ==
    IF ~BigLt(cost_wei, MantissaLimit)
    THEN Err("CalculationError: U256 conversion error")
    ELSE Ok(DecMul(DecDivPow10(Dec(FALSE, cost_wei, 0), 18), price_usd))

\* The ? of a U256 result, then its conversion into dollars.
checked_cost_usd(cost_wei, price_usd) ==
    IF cost_wei.tag # "Ok" THEN cost_wei ELSE wei_cost_usd(cost_wei.val, price_usd)

eth_swap_cost_usd(gas_estimate_raw, base_fee_per_gas, priority_fee, price_usd) ==
    IF gas_estimate_raw.tag # "Ok" THEN gas_estimate_raw
    ELSE checked_cost_usd(
             swap_cost_wei(gas_estimate_raw.val, base_fee_per_gas, priority_fee),
             price_usd)

\* estimate_gas_usd_eth_swap once its two reads have answered.
estimate_gas_usd_eth_swap(base_fee_per_gas, priority_fee, price_usd) ==
    eth_swap_cost_usd(get_typical_swap_gas(eth_chain_id), base_fee_per_gas,
                      priority_fee, price_usd)

l2_swap_cost_wei(l2_gas_estimate_raw, base_fee_per_gas, priority_fee) ==
    IF l2_gas_estimate_raw.tag # "Ok" THEN l2_gas_estimate_raw
    ELSE swap_cost_wei(l2_gas_estimate_raw.val, base_fee_per_gas, priority_fee)

\* l2_cost_wei of estimate_gas_usd_base_swap, computed before the oracle is read.
base_l2_cost_wei(base_fee_per_gas, priority_fee) ==
    l2_swap_cost_wei(get_typical_swap_gas(base_chain_id), base_fee_per_gas,
                     priority_fee)

\* estimate_gas_usd_base_swap once the oracle has answered.
estimate_gas_usd_base_swap(l2_cost_wei, l1_data_fee_wei, price_usd) ==
    checked_cost_usd(U256Checked(BigAdd(l2_cost_wei, l1_data_fee_wei)), price_usd)

\* The eth_call requests estimate_l1_data_fee sends: none after the early
\* return, one otherwise.
l1_fee_provider_calls(chain_id) == IF chain_id # 8453 THEN 0 ELSE 1

\* The two fee reads of an estimator, each with its ?.
fees_of_priority(base_fee_per_gas, priority_fee) ==
    IF priority_fee.tag # "Ok" THEN priority_fee
    ELSE Ok([base_fee_per_gas |-> base_fee_per_gas, priority_fee |-> priority_fee.val])

fees_of_base_fee(base_fee_per_gas, priority_answer) ==
    IF base_fee_per_gas.tag # "Ok" THEN base_fee_per_gas
    ELSE fees_of_priority(base_fee_per_gas.val,
                          get_max_priority_fee_per_gas(priority_answer))

fees_of_block(latest_block, priority_answer, message) ==
    IF latest_block.tag # "Ok" THEN latest_block
    ELSE fees_of_base_fee(base_fee_of(latest_block.val, message), priority_answer)

fee_reads(block_answer, priority_answer, message) ==
    fees_of_block(get_latest_block(block_answer), priority_answer, message)

\* gas_price_wei, then get_typical_swap_gas()? of a client of any chain id, then
\* the buffered cost in wei.
chain_cost_of_price(chain_id, gas_price_wei, base_fee_per_gas, priority_fee) ==
    IF gas_price_wei.tag # "Ok" THEN gas_price_wei
    ELSE l2_swap_cost_wei(get_typical_swap_gas(chain_id), base_fee_per_gas,
                          priority_fee)

chain_swap_cost_wei(chain_id, fees) ==
    IF fees.tag # "Ok" THEN fees
    ELSE chain_cost_of_price(
             chain_id,
             U256Checked(BigAdd(fees.val.base_fee_per_gas, fees.val.priority_fee)),
             fees.val.base_fee_per_gas, fees.val.priority_fee)

\* estimate_gas_usd_eth_swap on a client of any chain id.
eth_swap_estimate(chain_id, block_answer, priority_answer, price_usd) ==
    checked_cost_usd(
        chain_swap_cost_wei(chain_id,
                            fee_reads(block_answer, priority_answer, NoEthBaseFee)),
        price_usd)

base_estimate_of_l1_fee(l2_cost_wei, l1_data_fee, price_usd) ==
    IF l1_data_fee.tag # "Ok" THEN l1_data_fee
    ELSE estimate_gas_usd_base_swap(l2_cost_wei, l1_data_fee.val, price_usd)

base_estimate_of_l2_cost(chain_id, l2_cost_wei, oracle_answer, price_usd) ==
    IF l2_cost_wei.tag # "Ok" THEN l2_cost_wei
    ELSE base_estimate_of_l1_fee(l2_cost_wei.val,
                                 estimate_l1_data_fee(chain_id, oracle_answer),
                                 price_usd)

\* l2_cost_wei of estimate_gas_usd_base_swap on a client of any chain id.
base_swap_l2_cost(chain_id, block_answer, priority_answer) ==
    chain_swap_cost_wei(chain_id,
                        fee_reads(block_answer, priority_answer, NoBaseBaseFee))

\* estimate_gas_usd_base_swap on a client of any chain id.
base_swap_estimate(chain_id, block_answer, priority_answer, oracle_answer, price_usd) ==
    base_estimate_of_l2_cost(
        chain_id, base_swap_l2_cost(chain_id, block_answer, priority_answer),
        oracle_answer, price_usd)

----------------------------------------------------------------------------
(* ArbitrageService::check_arbitrage_opportunity (src/src/service.rs),     *)
(* called concurrently: the REST handler takes the service's RwLock for    *)
(* reading, so any number of calls run at once on the one analyzer.        *)

NumCalls == 2

Calls == 1 .. NumCalls

\* What the collaborators may answer.  Fees are in wei.
Gwei(n) == BigMul(BigFromNat(n), BigPow10(9))

\* The 32-byte big-endian word of a machine number.
WordOf(n) ==
    [i \in 1 .. 32 |->
        IF i = 32 THEN n % 256
        ELSE IF i = 31 THEN (n \div 256) % 256
        ELSE IF i = 30 THEN (n \div 65536) % 256
        ELSE IF i = 29 THEN (n \div 16777216) % 256
        ELSE 0]

SvcTradeSizes == {10}

CexPriceUsd == {3000, 3010}

CexAnswers == {ProviderError} \cup {Answer(DecFromInt(n)) : n \in CexPriceUsd}

UniswapPriceTenths == {30100}

AerodromePriceTenths == {30000}

\* A trade of 56295000342.13142204460492432 ETH, and the effective prices the
\* two calculators quote for it on a Uniswap pool of sqrtPriceX96 = 2^95 and on
\* Aerodrome reserves of 2^60 and 2^32: -1407374758553285551.115123108 and
\* 0.0000000762939385184731560759.
LargeTrade == Dec(FALSE, <<2432, 6049, 2044, 3142, 3421, 5000, 5629>>, 17)

LargeTradeUniswapPrice ==
    Dec(TRUE, <<3108, 1512, 5511, 3285, 5855, 3747, 1407>>, 9)

LargeTradeAerodromePrice == Dec(FALSE, <<759, 3156, 1847, 9385, 6293, 7>>, 28)

\* The trade sizes of the requests.
TradeRequests == {DecFromInt(size) : size \in SvcTradeSizes} \cup {LargeTrade}

QuoteOf(price10, amount_in, gas_estimate) ==
    SwapQuote(DecMul(DecLit(price10, 1), amount_in), DecLit(price10, 1),
              DecLit(1, 3), gas_estimate)

\* The quotes the two calculators return for the large trade on those pools:
\* amounts out of -78990478026721544580763316490 and of 4294.967295, impacts of
\* 5629500.034213142204460492432 and of 99.99999999997995200018237576939.
LargeTradeUniswapQuote ==
    SwapQuote(Dec(TRUE, <<6490, 6331, 5807, 1544, 2672, 4780, 8990, 7>>, 0),
              LargeTradeUniswapPrice,
              Dec(FALSE, <<2432, 6049, 2044, 3142, 3421, 5000, 5629>>, 21), 150000)

LargeTradeAerodromeQuote ==
    SwapQuote(Dec(FALSE, <<7295, 9496, 42>>, 6), LargeTradeAerodromePrice,
              Dec(FALSE, <<6939, 3757, 182, 5200, 9979, 9999, 9999>>, 26), 80000)

\* The quotes a venue may return for a trade.
UniswapQuotes(amount_eth) ==
    IF amount_eth = LargeTrade THEN {LargeTradeUniswapQuote}
    ELSE {QuoteOf(q, amount_eth, 150000) : q \in UniswapPriceTenths}

AerodromeQuotes(amount_eth) ==
    IF amount_eth = LargeTrade THEN {LargeTradeAerodromeQuote}
    ELSE {QuoteOf(q, amount_eth, 80000) : q \in AerodromePriceTenths}

EthBaseFeeGwei == {10, 20}

EthPriorityFeeGwei == {1}

BaseBaseFeeGwei == {1}

BasePriorityFeeGwei == {1}

L1FeeWei == {2000000}

BlockAnswers(fees) ==
    {ProviderError, Answer(Nothing), Answer(Some([base_fee_per_gas |-> Nothing]))}
        \cup {Answer(Some([base_fee_per_gas |-> Some(Gwei(f))])) : f \in fees}

PriorityAnswers(fees) == {ProviderError} \cup {Answer(Gwei(f)) : f \in fees}

L1Answers == {ProviderError, Answer(<<0, 0, 0>>)} \cup {Answer(WordOf(f)) : f \in L1FeeWei}

\* CexClient::get_spot_price, a collaborator behind a trait object.
fetch_cex_price(answer) ==
    IF answer.tag = "ProviderError" THEN Err("CexApiError")
    ELSE Ok([price |-> answer.val])

\* DexClient::calculate_swap_output(amount, true) of the two venue clients, seen
\* from the service as trait objects: an error or a quote.
get_uniswap_quote(answer, amount_eth) ==
    IF answer.tag = "ProviderError"
    THEN Err("ContractError: Failed to call getSlot0")
    ELSE Ok(answer.val)

get_aerodrome_quote(answer, amount_eth) ==
    IF answer.tag = "ProviderError"
    THEN Err("ContractError: Failed to call getReserves")
    ELSE Ok(answer.val)

Reads == {"cex_price", "uniswap_quote", "aerodrome_quote", "eth_block",
          "eth_priority_fee", "base_block", "base_priority_fee", "base_l1_fee"}

\* The locals of a call that has just started; entry_eth_price_usd and
\* analyzer_price record, for the properties, the analyzer's field as the call
\* found it on entry and under the lock of its analysis.
NewCall(trade_size_eth, entry_price) ==
    [trade_size_eth      |-> trade_size_eth,
     entry_eth_price_usd |-> entry_price,
     cex_price           |-> None,
     uniswap_quote       |-> None,
     aerodrome_quote     |-> None,
     eth_block           |-> None,
     eth_priority_fee    |-> None,
     eth_gas_cost_usd    |-> None,
     base_block          |-> None,
     base_priority_fee   |-> None,
     base_l2_cost_wei    |-> None,
     base_l1_fee         |-> None,
     base_gas_cost_usd   |-> None,
     analyzer_price      |-> None,
     attempts            |-> [r \in Reads |-> 0],
     analyses            |-> 0,
     ret                 |-> None]

IdleCall == NewCall(DecZero, DecZero)

Init ==
    /\ eth_price_usd = analyzer_new
    /\ mutex = 0
    /\ poisoned = FALSE
    /\ pc = [p \in Calls |-> "idle"]
    /\ call = [p \in Calls |-> IdleCall]
    /\ an_args = None
    /\ an_ret = None
    /\ dx_args = None
    /\ dx_ret = None
    /\ dx_log = << >>
    /\ provider_calls = 0

\* The price both estimators are given (service.rs:82 and :87): the price this
\* call fetched, not the analyzer's field.
gas_reference_stored(stored_price, cex_price) == stored_price

gas_reference_price(stored_price, cex_price) == cex_price

on_error_retry(at) == at

\* The ? of lines 73, 83, 88 and 101: a result that is not Ok ends the call.
on_error(at) == "done"

Took(c, read) == [c EXCEPT !.attempts[read] = @ + 1]

\* The call p goes on with the locals c after a step that gave r.
Proceed(p, c, r, next) ==
    /\ call' = [call EXCEPT ![p] = IF r.tag = "Ok" THEN c ELSE [c EXCEPT !.ret = r]]
    /\ pc' = [pc EXCEPT ![p] = IF r.tag = "Ok" THEN next ELSE on_error(pc[p])]

\* tokio::try_join! has all three of its futures' values.
Joined(c) ==
    /\ c.cex_price.tag = "Ok"
    /\ c.uniswap_quote.tag = "Ok"
    /\ c.aerodrome_quote.tag = "Ok"

AfterJoin(c) == IF Joined(c) THEN "update" ELSE "join"

Start(p) ==
    /\ pc[p] = "idle"
    /\ \E size \in TradeRequests :
          call' = [call EXCEPT ![p] = NewCall(size, eth_price_usd)]
    /\ pc' = [pc EXCEPT ![p] = "join"]
    /\ UNCHANGED <<eth_price_usd, mutex, poisoned, an_vars, dx_vars>>

\* The three futures of try_join! complete in any order; the first error ends
\* the call and drops the others.
FetchCexPrice(p) ==
    /\ pc[p] = "join"
    /\ call[p].cex_price = None
    /\ \E a \in CexAnswers :
          \E r \in {fetch_cex_price(a)} :
          \E c \in {[Took(call[p], "cex_price") EXCEPT !.cex_price = r]} :
              Proceed(p, c, r, AfterJoin(c))
    /\ UNCHANGED <<eth_price_usd, mutex, poisoned, an_vars, dx_vars>>

GetUniswapQuote(p) ==
    /\ pc[p] = "join"
    /\ call[p].uniswap_quote = None
    /\ \E a \in {ProviderError}
                 \cup {Answer(q) : q \in UniswapQuotes(call[p].trade_size_eth)} :
          \E r \in {get_uniswap_quote(a, call[p].trade_size_eth)} :
          \E c \in {[Took(call[p], "uniswap_quote") EXCEPT !.uniswap_quote = r]} :
              Proceed(p, c, r, AfterJoin(c))
    /\ UNCHANGED <<eth_price_usd, mutex, poisoned, an_vars, dx_vars>>

GetAerodromeQuote(p) ==
    /\ pc[p] = "join"
    /\ call[p].aerodrome_quote = None
    /\ \E a \in {ProviderError}
                 \cup {Answer(q) : q \in AerodromeQuotes(call[p].trade_size_eth)} :
          \E r \in {get_aerodrome_quote(a, call[p].trade_size_eth)} :
          \E c \in {[Took(call[p], "aerodrome_quote") EXCEPT !.aerodrome_quote = r]} :
              Proceed(p, c, r, AfterJoin(c))
    /\ UNCHANGED <<eth_price_usd, mutex, poisoned, an_vars, dx_vars>>

\* lock().unwrap() on a Mutex that a panic under the guard has poisoned.
PoisonError == Panic("called Result::unwrap() on an Err value: PoisonError")

\* Line 75: lock, store, unlock in one statement.
UpdateEthPrice(p) ==
    /\ pc[p] = "update"
    /\ mutex = 0
    /\ eth_price_usd' = IF poisoned THEN eth_price_usd
                        ELSE update_eth_price(eth_price_usd,
                                              call[p].cex_price.val.price)
    /\ pc' = [pc EXCEPT ![p] = IF poisoned THEN "done" ELSE "eth_block"]
    /\ call' = [call EXCEPT ![p].ret = IF poisoned THEN PoisonError ELSE @]
    /\ UNCHANGED <<mutex, poisoned, an_vars, dx_vars>>

\* estimate_gas_usd_eth_swap, lines 148-150.
EthLatestBlock(p) ==
    /\ pc[p] = "eth_block"
    /\ \E a \in BlockAnswers(EthBaseFeeGwei) :
          \E block \in {get_latest_block(a)} :
          \E fee \in {IF block.tag = "Ok" THEN base_fee_of(block.val, NoEthBaseFee)
                      ELSE block} :
          \E c \in {[Took(call[p], "eth_block") EXCEPT !.eth_block = block]} :
              Proceed(p, c, fee, "eth_priority_fee")
    /\ UNCHANGED <<eth_price_usd, mutex, poisoned, an_vars, dx_vars>>

\* estimate_gas_usd_eth_swap, lines 152-174.
EthPriorityFee(p) ==
    /\ pc[p] = "eth_priority_fee"
    /\ \E a \in PriorityAnswers(EthPriorityFeeGwei) :
          \E fee \in {get_max_priority_fee_per_gas(a)} :
          \E cost \in {IF fee.tag = "Ok"
                       THEN estimate_gas_usd_eth_swap(
                                base_fee_of(call[p].eth_block.val, NoEthBaseFee).val,
                                fee.val,
                                gas_reference_price(eth_price_usd,
                                                    call[p].cex_price.val.price))
                       ELSE fee} :
          \E c \in {[Took(call[p], "eth_priority_fee") EXCEPT
                         !.eth_priority_fee = fee, !.eth_gas_cost_usd = cost]} :
              Proceed(p, c, cost, "base_block")
    /\ UNCHANGED <<eth_price_usd, mutex, poisoned, an_vars, dx_vars>>

\* estimate_gas_usd_base_swap, lines 178-180.
BaseLatestBlock(p) ==
    /\ pc[p] = "base_block"
    /\ \E a \in BlockAnswers(BaseBaseFeeGwei) :
          \E block \in {get_latest_block(a)} :
          \E fee \in {IF block.tag = "Ok" THEN base_fee_of(block.val, NoBaseBaseFee)
                      ELSE block} :
          \E c \in {[Took(call[p], "base_block") EXCEPT !.base_block = block]} :
              Proceed(p, c, fee, "base_priority_fee")
    /\ UNCHANGED <<eth_price_usd, mutex, poisoned, an_vars, dx_vars>>

\* estimate_gas_usd_base_swap, lines 182-192.
BasePriorityFee(p) ==
    /\ pc[p] = "base_priority_fee"
    /\ \E a \in PriorityAnswers(BasePriorityFeeGwei) :
          \E fee \in {get_max_priority_fee_per_gas(a)} :
          \E l2 \in {IF fee.tag = "Ok"
                     THEN base_l2_cost_wei(
                              base_fee_of(call[p].base_block.val, NoBaseBaseFee).val,
                              fee.val)
                     ELSE fee} :
          \E c \in {[Took(call[p], "base_priority_fee") EXCEPT
                         !.base_priority_fee = fee, !.base_l2_cost_wei = l2]} :
              Proceed(p, c, l2, "base_l1_fee")
    /\ UNCHANGED <<eth_price_usd, mutex, poisoned, an_vars, dx_vars>>

\* estimate_gas_usd_base_swap, lines 194-217.
BaseL1Fee(p) ==
    /\ pc[p] = "base_l1_fee"
    /\ \E a \in L1Answers :
          \E fee \in {estimate_l1_data_fee(base_chain_id, a)} :
          \E cost \in {IF fee.tag = "Ok"
                       THEN estimate_gas_usd_base_swap(
                                call[p].base_l2_cost_wei.val, fee.val,
                                gas_reference_price(eth_price_usd,
                                                    call[p].cex_price.val.price))
                       ELSE fee} :
          \E c \in {[Took(call[p], "base_l1_fee") EXCEPT
                         !.base_l1_fee = fee, !.base_gas_cost_usd = cost]} :
              Proceed(p, c, cost, "analyze")
    /\ UNCHANGED <<eth_price_usd, mutex, poisoned, an_vars, dx_vars>>

\* Line 93: the guard lives until the function returns.
AnalyzeLock(p) ==
    /\ pc[p] = "analyze"
    /\ mutex = 0
    /\ mutex' = IF poisoned THEN 0 ELSE p
    /\ pc' = [pc EXCEPT ![p] = IF poisoned THEN "done" ELSE "analyzing"]
    /\ call' = [call EXCEPT ![p].ret = IF poisoned THEN PoisonError ELSE @]
    /\ UNCHANGED <<eth_price_usd, poisoned, an_vars, dx_vars>>

\* The ArbitrageOpportunity of lines 103-110, without its timestamp.
ArbitrageOpportunity(c, analyzer, arbitrage_summary) ==
    [trade_size_eth          |-> c.trade_size_eth,
     reference_cex_price_usd |-> c.cex_price.val.price,
     uniswap_v4_details      |->
         create_dex_details(analyzer, c.uniswap_quote.val, c.eth_gas_cost_usd.val),
     aerodrome_details       |->
         create_dex_details(analyzer, c.aerodrome_quote.val, c.base_gas_cost_usd.val),
     arbitrage_summary       |-> arbitrage_summary]

\* A guard that outlives the call: the analysis returns and the Mutex stays
\* locked.
AnalyzeReturnKeepingGuard(p) ==
    /\ pc[p] = "analyzing"
    /\ mutex = p
    /\ \E c0 \in {call[p]} :
       \E summary \in {analyze_opportunity_with_gas(
                           eth_price_usd, c0.uniswap_quote.val, c0.aerodrome_quote.val,
                           c0.trade_size_eth, c0.cex_price.val.price,
                           c0.eth_gas_cost_usd.val, c0.base_gas_cost_usd.val)} :
       \E r \in {IF summary.tag = "Ok"
                 THEN Ok(ArbitrageOpportunity(c0, eth_price_usd, summary.val))
                 ELSE summary} :
           /\ call' = [call EXCEPT ![p] = [c0 EXCEPT !.analyzer_price = Ok(eth_price_usd),
                                                     !.analyses = @ + 1, !.ret = r]]
           /\ pc' = [pc EXCEPT ![p] = "done"]
    /\ UNCHANGED <<eth_price_usd, mutex, poisoned, an_vars, dx_vars>>

\* Lines 94-114, under the lock: the guard is dropped on return and on a
\* panic, and a panic poisons the Mutex.
AnalyzeReturn(p) ==
    /\ pc[p] = "analyzing"
    /\ mutex = p
    /\ \E c0 \in {call[p]} :
       \E summary \in {analyze_opportunity_with_gas(
                           eth_price_usd, c0.uniswap_quote.val, c0.aerodrome_quote.val,
                           c0.trade_size_eth, c0.cex_price.val.price,
                           c0.eth_gas_cost_usd.val, c0.base_gas_cost_usd.val)} :
       \E r \in {IF summary.tag = "Ok"
                 THEN Ok(ArbitrageOpportunity(c0, eth_price_usd, summary.val))
                 ELSE summary} :
           /\ call' = [call EXCEPT ![p] = [c0 EXCEPT !.analyzer_price = Ok(eth_price_usd),
                                                     !.analyses = @ + 1, !.ret = r]]
           /\ pc' = [pc EXCEPT ![p] = "done"]
           /\ poisoned' = (poisoned \/ summary.tag = "Panic")
    /\ mutex' = 0
    /\ UNCHANGED <<eth_price_usd, an_vars, dx_vars>>

\* The caller has its result; the slot takes the next request.
Return(p) ==
    /\ pc[p] = "done"
    /\ pc' = [pc EXCEPT ![p] = "idle"]
    /\ call' = [call EXCEPT ![p] = IdleCall]
    /\ UNCHANGED <<eth_price_usd, mutex, poisoned, an_vars, dx_vars>>

Next ==
    \E p \in Calls :
        \/ Start(p)
        \/ FetchCexPrice(p)
        \/ GetUniswapQuote(p)
        \/ GetAerodromeQuote(p)
        \/ UpdateEthPrice(p)
        \/ EthLatestBlock(p)
        \/ EthPriorityFee(p)
        \/ BaseLatestBlock(p)
        \/ BasePriorityFee(p)
        \/ BaseL1Fee(p)
        \/ AnalyzeLock(p)
        \/ AnalyzeReturn(p)
        \/ Return(p)

Spec == Init /\ [][Next]_vars

\* A step of the call p in which an external read returns.
ReadReturns(p) ==
    \/ FetchCexPrice(p)
    \/ GetUniswapQuote(p)
    \/ GetAerodromeQuote(p)
    \/ EthLatestBlock(p)
    \/ EthPriorityFee(p)
    \/ BaseLatestBlock(p)
    \/ BasePriorityFee(p)
    \/ BaseL1Fee(p)

\* The service when every external read returns and the runtime keeps running
\* the calls: a call's read returns, a call blocked in lock() gets a Mutex that
\* is unlocked again and again, and the synchronous code under the guard runs
\* to its end.  Requests need not arrive.
Fairness ==
    \A p \in Calls :
        /\ WF_vars(ReadReturns(p))
        /\ SF_vars(UpdateEthPrice(p))
        /\ SF_vars(AnalyzeLock(p))
        /\ WF_vars(AnalyzeReturn(p))

\* The answers drawn when progress is checked: the prices and fees of one
\* market, and every way a read can fail.
FairCexPriceUsd == {3000}

FairEthBaseFeeGwei == {10}

FairSample ==
    \A p \in Calls :
        /\ call[p].cex_price.tag = "Ok"
               => call[p].cex_price.val.price \in {DecFromInt(n) : n \in FairCexPriceUsd}
        /\ call[p].eth_block
               \in {None} \cup {get_latest_block(a) : a \in BlockAnswers(FairEthBaseFeeGwei)}

NextFair ==
    \E p \in Calls :
        \/ Start(p) /\ FairSample'
        \/ FetchCexPrice(p) /\ FairSample'
        \/ GetUniswapQuote(p) /\ FairSample'
        \/ GetAerodromeQuote(p) /\ FairSample'
        \/ UpdateEthPrice(p) /\ FairSample'
        \/ EthLatestBlock(p) /\ FairSample'
        \/ EthPriorityFee(p) /\ FairSample'
        \/ BaseLatestBlock(p) /\ FairSample'
        \/ BasePriorityFee(p) /\ FairSample'
        \/ BaseL1Fee(p) /\ FairSample'
        \/ AnalyzeLock(p) /\ FairSample'
        \/ AnalyzeReturn(p) /\ FairSample'
        \/ Return(p) /\ FairSample'

SpecFair == Init /\ [][NextFair]_vars /\ Fairness

----------------------------------------------------------------------------
(* The venue decoders (src/src/dex/uniswap_v4/pool.rs and                  *)
(* src/src/dex/aerodrome/pool.rs), as functions of the bytes the contract  *)
(* call returned.  Bytes are numbered from 1: Rust's result[i] is          *)
(* result[i + 1] here.                                                     *)

\* The result of f64 arithmetic that rounds: the model computes floating-point
\* steps only where they are exact.
OutsideModel == [tag |-> "OutsideModel"]

PoolState(sqrt_price_x96, tick, liquidity, fee) ==
    [sqrt_price_x96 |-> sqrt_price_x96, tick |-> tick,
     liquidity |-> liquidity, fee |-> fee]

\* a | b on naturals.
RECURSIVE BitOr(_, _)
BitOr(a, b) ==
    IF a = 0 THEN b
    ELSE IF b = 0 THEN a
    ELSE (IF a % 2 = 1 \/ b % 2 = 1 THEN 1 ELSE 0) + 2 * BitOr(a \div 2, b \div 2)

\* 32-bit integers as their four bytes, high byte first.
FromU8(b) == <<0, 0, 0, b>>

\* x << 8 * n: the high n bytes fall off.
Shl32(x, n) == [i \in 1 .. 4 |-> IF i + n <= 4 THEN x[i + n] ELSE 0]

Or32(x, y) == [i \in 1 .. 4 |-> BitOr(x[i], y[i])]

\* The bits read as an i32 (two's complement).
AsI32(x) ==
    (IF x[1] >= 128 THEN x[1] - 256 ELSE x[1]) * 16777216
        + x[2] * 65536 + x[3] * 256 + x[4]

\* The bits read as a u32, for the values below 2^24 the decoder builds.
AsU32(x) == x[2] * 65536 + x[3] * 256 + x[4]

\* (b29 << 16) | (b30 << 8) | b31 of a 32-byte word.
Low24(word) ==
    Or32(Or32(Shl32(FromU8(word[30]), 2), Shl32(FromU8(word[31]), 1)),
         FromU8(word[32]))

tick_unsigned(tick_bytes) == AsI32(Low24(tick_bytes))

tick_signed_by_byte30(tick_bytes) ==
    IF tick_bytes[31] >= 128
    THEN AsI32(Or32(Low24(tick_bytes), <<255, 0, 0, 0>>))
    ELSE AsI32(Low24(tick_bytes))

\* tick_i32 of read_slot0, lines 81-92.
tick_i32(tick_bytes) ==
    IF tick_bytes[30] >= 128
    THEN AsI32(Or32(Low24(tick_bytes), <<255, 0, 0, 0>>))
    ELSE AsI32(Low24(tick_bytes))

\* read_slot0: (sqrt_price, tick, protocol_fee, lp_fee).
read_slot0(answer) ==
    IF answer.tag = "ProviderError"
    THEN Err("ContractError: Failed to call getSlot0")
    ELSE IF Len(answer.val) < 128
    THEN Err("ContractError: Invalid slot0 response")
    ELSE LET result             == answer.val
             sqrt_price_bytes   == SubSeq(result, 1, 32)
             tick_bytes         == SubSeq(result, 33, 64)
             protocol_fee_bytes == SubSeq(result, 65, 96)
             lp_fee_bytes       == SubSeq(result, 97, 128)
             sqrt_price_u128    == as_u128(from_big_endian(sqrt_price_bytes))
         IN  IF sqrt_price_u128.tag # "Ok" THEN sqrt_price_u128
             ELSE Ok(<<sqrt_price_u128.val, tick_i32(tick_bytes),
                       AsU32(Low24(protocol_fee_bytes)), AsU32(Low24(lp_fee_bytes))>>)

read_liquidity_inclusive(answer) ==
    IF answer.tag = "ProviderError"
    THEN Err("ContractError: Failed to call getLiquidity")
    ELSE IF Len(answer.val) <= 32
    THEN Err("ContractError: Invalid liquidity response")
    ELSE as_u128(from_big_endian(SubSeq(answer.val, 1, 32)))

\* A client that remembers a failure: once a call on it has failed, it refuses
\* every liquidity response.
read_liquidity_after_failure(answer) ==
    IF \E i \in DOMAIN dx_log : dx_log[i].ret.tag = "Err"
    THEN Err("ContractError: Invalid liquidity response")
    ELSE IF answer.tag = "ProviderError"
    THEN Err("ContractError: Failed to call getLiquidity")
    ELSE IF Len(answer.val) < 32
    THEN Err("ContractError: Invalid liquidity response")
    ELSE as_u128(from_big_endian(SubSeq(answer.val, 1, 32)))

\* UniswapV4Client::read_liquidity.
read_liquidity(answer) ==
    IF answer.tag = "ProviderError"
    THEN Err("ContractError: Failed to call getLiquidity")
    ELSE IF Len(answer.val) < 32
    THEN Err("ContractError: Invalid liquidity response")
    ELSE as_u128(from_big_endian(SubSeq(answer.val, 1, 32)))

\* get_pool_state_internal: the liquidity is read only after slot0 decoded.
get_pool_state_internal(slot0_answer, liquidity_answer) ==
    LET slot0_data == read_slot0(slot0_answer)
        liquidity  == read_liquidity(liquidity_answer)
    IN  IF slot0_data.tag # "Ok" THEN slot0_data
        ELSE IF liquidity.tag # "Ok" THEN liquidity
        ELSE Ok(PoolState(slot0_data.val[1], slot0_data.val[2], liquidity.val,
                          slot0_data.val[4]))

\* AerodromeClient::get_reserves.
get_reserves(answer) ==
    IF answer.tag = "ProviderError"
    THEN Err("ContractError: Failed to call getReserves")
    ELSE IF Len(answer.val) < 64
    THEN Err("ContractError: Invalid reserves response - insufficient data")
    ELSE LET r0 == as_u128(from_big_endian(SubSeq(answer.val, 1, 32)))
             r1 == as_u128(from_big_endian(SubSeq(answer.val, 33, 64)))
         IN  IF r0.tag # "Ok" THEN r0
             ELSE IF r1.tag # "Ok" THEN r1
             ELSE IF r0.val = << >> \/ r1.val = << >>
             THEN Err("ContractError: Pool has no liquidity")
             ELSE Ok(<<r0.val, r1.val>>)

\* k + j when n = 2^j, and -1 when n is no power of two.
RECURSIVE Log2From(_, _)
Log2From(n, k) ==
    IF n = << >> THEN -1
    ELSE IF n = <<1>> THEN k
    ELSE IF BigLow(n) % 2 = 1 THEN -1
    ELSE LET bits == IF BigModSmall(n, 4096) = 0 THEN 12 ELSE 1
             rest == BigDivSmall(n, 2 ^ bits)
         IN  IF Len(rest) >= 0 THEN Log2From(rest, k + bits) ELSE -1

Log2Exact(n) == Log2From(n, 0)

\* ((reserve1 as f64 / reserve0 as f64).sqrt() * 2^96 as f64) as u128 where the
\* reserves are powers of two and their quotient a power of four, so that no
\* step rounds; the cast to u128 saturates.
reserves_sqrt_price(reserve0, reserve1) ==
    LET a == Log2Exact(reserve0)
        b == Log2Exact(reserve1)
        k == 96 + (b - a) \div 2
    IN  IF a = -1 \/ b = -1 \/ (b - a) % 2 # 0 THEN OutsideModel
        ELSE IF k < 0 THEN << >>
        ELSE IF k >= 128 THEN BigSub(U128Limit, <<1>>)
        ELSE BigPow2(k)

\* u128::saturating_add.
saturating_add(x, y) ==
    LET sum == BigAdd(x, y)
    IN  IF BigLt(sum, U128Limit) THEN sum ELSE BigSub(U128Limit, <<1>>)

\* AerodromeClient::get_pool_state.
aerodrome_get_pool_state(answer) ==
    LET reserves == get_reserves(answer)
    IN  IF reserves.tag # "Ok" THEN reserves
        ELSE LET reserve0 == reserves.val[1]
                 reserve1 == reserves.val[2]
             IN  Ok(PoolState(reserves_sqrt_price(reserve0, reserve1), 0,
                              BigDivSmall(saturating_add(reserve0, reserve1), 2), 30))

----------------------------------------------------------------------------
(* The venue calculators: calculate_swap_output of both clients.  A        *)
(* Decimal operation whose result is beyond every Decimal panics.          *)

DecMulChecked(a, b) ==
    IF DecMulOverflows(a, b) THEN Panic("Multiplication overflowed")
    ELSE Ok(DecMul(a, b))

DecDivChecked(a, b) ==
    IF DecIsZero(b) THEN Panic("Division by zero")
    ELSE IF DecDivOverflows(a, b) THEN Panic("Division overflowed")
    ELSE Ok(DecDiv(a, b))

\* Decimal::from(u128), which unwraps a conversion that fails from 2^96 on.
DecFromU128(x) ==
    IF BigLt(x, MantissaLimit) THEN Ok(Dec(FALSE, x, 0))
    ELSE Panic("called Option::unwrap() on a None value")

\* k plus the number of decimal digits of n.
RECURSIVE BigDigitsFrom(_, _)
BigDigitsFrom(n, k) ==
    IF n = << >> THEN k
    ELSE LET rest == BigDivSmall(n, 10)
         IN  IF Len(rest) >= 0 THEN BigDigitsFrom(rest, k + 1) ELSE k

\* The number of decimal digits of n without its trailing zeros.
RECURSIVE SigDigits(_)
SigDigits(n) ==
    IF n # << >> /\ BigLow(n) % 10 = 0
    THEN LET rest == BigDivSmall(n, 10)
         IN  IF Len(rest) >= 0 THEN SigDigits(rest) ELSE 0
    ELSE BigDigitsFrom(n, 0)

BigPow5(k) == BigDivMod(BigPow10(k), BigPow2(k)).q

\* Decimal::try_from(spot_price_raw * 1e12).unwrap_or(Decimal::from(3000)) of
\* lines 140-144 for a sqrt price 0 or 2^k, where every f64 step is exact: the
\* product is 5^12 * 2^(2k - 180).  A value of 2^96 or more is no Decimal, and
\* one of at most 15 significant digits converts exactly.
spot_price_of(sqrt_price_x96) ==
    LET k == Log2Exact(sqrt_price_x96)
        j == 2 * k - 180
        n == IF j >= 0 THEN BigMul(BigPow5(12), BigPow2(j)) ELSE BigPow5(12 - j)
    IN  IF sqrt_price_x96 = << >> THEN Ok(DecZero)
        ELSE IF k = -1 THEN OutsideModel
        ELSE IF j >= 0 /\ ~BigLt(n, MantissaLimit) THEN Ok(DecFromInt(3000))
        ELSE IF SigDigits(n) > 15 \/ j < -28 THEN OutsideModel
        ELSE Ok(Dec(FALSE, n, IF j >= 0 THEN 0 ELSE -j))

\* price_impact_percent of lines 147-151.
uniswap_price_impact(amount_in) ==
    IF DecGt(amount_in, DecZero)
    THEN DecMul(DecDiv(amount_in, DecFromInt(10)), DecLit(1, 3))
    ELSE DecZero

\* The quote of lines 168-173.
uniswap_quote_of(amount_out_after_fee, effective_price, price_impact_percent) ==
    IF amount_out_after_fee.tag # "Ok" THEN amount_out_after_fee
    ELSE Ok(SwapQuote(amount_out_after_fee.val, effective_price,
                      price_impact_percent, 150000))

\* Lines 165-173: the pool's fee taken from the output.
uniswap_quote_after_fee(amount_out, effective_price, price_impact_percent, fee) ==
    uniswap_quote_of(
        DecMulChecked(amount_out,
                      DecSub(DecOne, DecDiv(DecFromInt(fee), DecFromInt(1000000)))),
        effective_price, price_impact_percent)

\* amount_out of lines 159-163.
uniswap_amount_out(amount_in, effective_price, zero_for_one) ==
    IF zero_for_one THEN DecMulChecked(amount_in, effective_price)
    ELSE DecDivChecked(amount_in, effective_price)

\* effective_price of lines 153-157.
uniswap_effective_price(spot_price, price_impact_percent, zero_for_one) ==
    IF zero_for_one
    THEN DecMulChecked(spot_price, DecSub(DecOne, price_impact_percent))
    ELSE DecMulChecked(spot_price, DecAdd(DecOne, price_impact_percent))

\* Lines 159-173 once effective_price is computed.
uniswap_quote_from_amount(amount_out, effective_price, price_impact_percent, fee) ==
    IF amount_out.tag # "Ok" THEN amount_out
    ELSE uniswap_quote_after_fee(amount_out.val, effective_price,
                                 price_impact_percent, fee)

\* Lines 153-173 once the spot price and the impact are computed.
uniswap_quote_from_effective(effective_price, amount_in, price_impact_percent, fee, zero_for_one) ==
    IF effective_price.tag # "Ok" THEN effective_price
    ELSE uniswap_quote_from_amount(
             uniswap_amount_out(amount_in, effective_price.val, zero_for_one),
             effective_price.val, price_impact_percent, fee)

\* Lines 140-173 on the pool's state.
uniswap_quote_from_spot(spot_price, amount_in, price_impact_percent, fee, zero_for_one) ==
    IF spot_price.tag # "Ok" THEN spot_price
    ELSE uniswap_quote_from_effective(
             uniswap_effective_price(spot_price.val, price_impact_percent,
                                     zero_for_one),
             amount_in, price_impact_percent, fee, zero_for_one)

\* Lines 138-173: the ? of line 138 returns the error of the pool state.
uniswap_quote_from_state(pool_state, amount_in, zero_for_one) ==
    IF pool_state.tag # "Ok" THEN pool_state
    ELSE uniswap_quote_from_spot(spot_price_of(pool_state.val.sqrt_price_x96),
                                 amount_in, uniswap_price_impact(amount_in),
                                 pool_state.val.fee, zero_for_one)

\* UniswapV4Client::calculate_swap_output.
uniswap_calculate_swap_output(slot0_answer, liquidity_answer, amount_in, zero_for_one) ==
    uniswap_quote_from_state(get_pool_state_internal(slot0_answer, liquidity_answer),
                             amount_in, zero_for_one)

\* A u128 operation whose exact result is x: a build with overflow checks
\* panics on a result of 2^128 or more, a build without them keeps its low 128
\* bits.
U128Checked(overflow_checks, x) ==
    IF BigLt(x, U128Limit) THEN Ok(x)
    ELSE IF overflow_checks THEN Panic("arithmetic operation overflow")
    ELSE Ok(BigMod(x, U128Limit))

\* AerodromeClient::get_amount_out.
get_amount_out(overflow_checks, amount_in, reserve_in, reserve_out) ==
    LET scaled             == U128Checked(overflow_checks, BigMulSmall(amount_in, 9999))
        amount_in_with_fee == BigDivSmall(scaled.val, 10000)
        numerator          ==
            U128Checked(overflow_checks, BigMul(amount_in_with_fee, reserve_out))
        denominator        ==
            U128Checked(overflow_checks, BigAdd(reserve_in, amount_in_with_fee))
    IN  IF reserve_in = << >> \/ reserve_out = << >>
        THEN Err("CalculationError: Insufficient liquidity")
        ELSE IF scaled.tag # "Ok" THEN scaled
        ELSE IF numerator.tag # "Ok" THEN numerator
        ELSE IF denominator.tag # "Ok" THEN denominator
        ELSE IF denominator.val = << >> THEN Err("CalculationError: Division by zero")
        ELSE Ok(BigDiv(numerator.val, denominator.val))

\* to_string().parse::<u128>() of a rounded amount: the string of a negative
\* number does not parse.
amount_in_wei_parsed(rounded) ==
    IF rounded.neg THEN Err("CalculationError: Failed to parse amount")
    ELSE Ok(rounded.m)

amount_in_wei_rounded(scaled) ==
    IF scaled.tag # "Ok" THEN scaled ELSE amount_in_wei_parsed(DecRound0(scaled.val))

\* (amount_in * 10^18).round_dp(0).to_string().parse::<u128>() of lines 83-86.
amount_in_wei_of(amount_in) ==
    amount_in_wei_rounded(DecMulChecked(amount_in, Dec(FALSE, BigPow10(18), 0)))

\* (price_impact * 100) of utils::calculate_price_impact.
price_impact_of_ratio(ratio) ==
    IF ratio.tag # "Ok" THEN ratio ELSE DecMulChecked(ratio.val, DecFromInt(100))

price_impact_of_expected(expected_out, amount_out) ==
    IF expected_out.tag # "Ok" THEN expected_out
    ELSE IF DecIsZero(expected_out.val) THEN Ok(DecZero)
    ELSE price_impact_of_ratio(
             DecDivChecked(DecSub(expected_out.val, amount_out), expected_out.val))

\* utils::calculate_price_impact.
calculate_price_impact(amount_in, amount_out, spot_price) ==
    price_impact_of_expected(DecMulChecked(amount_in, spot_price), amount_out)

spot_price_scaled(ratio) ==
    IF ratio.tag # "Ok" THEN ratio
    ELSE DecMulChecked(ratio.val, Dec(FALSE, BigPow10(12), 0))

spot_price_ratio(d1, d0) ==
    IF d1.tag # "Ok" THEN d1
    ELSE IF d0.tag # "Ok" THEN d0
    ELSE spot_price_scaled(DecDivChecked(d1.val, d0.val))

\* spot_price of line 99.
aerodrome_spot_price(reserve0, reserve1) ==
    spot_price_ratio(DecFromU128(reserve1), DecFromU128(reserve0))

\* The division alone, with a price of zero for an amount that is not positive.
aerodrome_effective_price_or_zero(amount_in, amount_out_decimal) ==
    IF DecGt(amount_in, DecZero) THEN DecDivChecked(amount_out_decimal, amount_in)
    ELSE Ok(DecZero)

\* effective_price of lines 102-106.
aerodrome_effective_price(amount_in, amount_out_decimal) ==
    IF DecGt(amount_in, DecZero) THEN DecDivChecked(amount_out_decimal, amount_in)
    ELSE Ok(DecFromInt(3000))

\* The quote of lines 109-114.
aerodrome_quote_of(amount_out_decimal, effective_price, price_impact) ==
    IF price_impact.tag # "Ok" THEN price_impact
    ELSE Ok(SwapQuote(amount_out_decimal, effective_price, price_impact.val, 80000))

\* Lines 107-114 once effective_price is computed.
aerodrome_quote_from_effective(effective_price, amount_in, amount_out_decimal, spot_price) ==
    IF effective_price.tag # "Ok" THEN effective_price
    ELSE aerodrome_quote_of(
             amount_out_decimal, effective_price.val,
             calculate_price_impact(amount_in, amount_out_decimal, spot_price))

\* Lines 102-114 once spot_price is computed.
aerodrome_quote_from_spot(spot_price, amount_in, amount_out_decimal) ==
    IF spot_price.tag # "Ok" THEN spot_price
    ELSE aerodrome_quote_from_effective(
             aerodrome_effective_price(amount_in, amount_out_decimal),
             amount_in, amount_out_decimal, spot_price.val)

\* Lines 96-114: amount_out_decimal is Decimal::from(amount_out) / 10^6.
aerodrome_quote_from_decimal(amount_out_u128, amount_in, reserve0, reserve1) ==
    IF amount_out_u128.tag # "Ok" THEN amount_out_u128
    ELSE aerodrome_quote_from_spot(aerodrome_spot_price(reserve0, reserve1),
                                   amount_in, DecDivPow10(amount_out_u128.val, 6))

\* Lines 94-114 on the result of get_amount_out.
aerodrome_quote_from_amount(amount_out, amount_in, reserve0, reserve1) ==
    IF amount_out.tag # "Ok" THEN amount_out
    ELSE aerodrome_quote_from_decimal(DecFromU128(amount_out.val), amount_in,
                                      reserve0, reserve1)

\* Lines 88-114 on amount_in_wei.
aerodrome_quote_from_wei(overflow_checks, amount_in_wei, amount_in, reserve0, reserve1, zero_for_one) ==
    IF amount_in_wei.tag # "Ok" THEN amount_in_wei
    ELSE aerodrome_quote_from_amount(
             get_amount_out(overflow_checks, amount_in_wei.val,
                            IF zero_for_one THEN reserve0 ELSE reserve1,
                            IF zero_for_one THEN reserve1 ELSE reserve0),
             amount_in, reserve0, reserve1)

\* Lines 83-114 on the result of get_reserves.
aerodrome_quote_from_reserves(overflow_checks, reserves, amount_in, zero_for_one) ==
    IF reserves.tag # "Ok" THEN reserves
    ELSE aerodrome_quote_from_wei(overflow_checks, amount_in_wei_of(amount_in),
                                  amount_in, reserves.val[1], reserves.val[2],
                                  zero_for_one)

\* A client that keeps its quotes: the quote it gave before for this amount and
\* direction is given again without a read of the reserves.
aerodrome_calculate_swap_output_cached(overflow_checks, answer, amount_in, zero_for_one) ==
    IF \E i \in DOMAIN dx_log :
          /\ dx_log[i].args.op = "aerodrome.calculate_swap_output"
          /\ dx_log[i].args.amount_in = amount_in
          /\ dx_log[i].args.zero_for_one = zero_for_one
          /\ dx_log[i].ret.tag = "Ok"
    THEN dx_log[CHOOSE i \in DOMAIN dx_log :
                    /\ dx_log[i].args.op = "aerodrome.calculate_swap_output"
                    /\ dx_log[i].args.amount_in = amount_in
                    /\ dx_log[i].args.zero_for_one = zero_for_one
                    /\ dx_log[i].ret.tag = "Ok"].ret
    ELSE aerodrome_quote_from_reserves(overflow_checks, get_reserves(answer), amount_in,
                                       zero_for_one)

\* AerodromeClient::calculate_swap_output.
aerodrome_calculate_swap_output(overflow_checks, answer, amount_in, zero_for_one) ==
    aerodrome_quote_from_reserves(overflow_checks, get_reserves(answer), amount_in,
                                  zero_for_one)

----------------------------------------------------------------------------
(* One call of a venue client on an answer drawn from a small set.         *)

ZeroWord == [i \in 1 .. 32 |-> 0]

\* The 32-byte big-endian word of 2^k, k < 256.
PowerWord(k) == [i \in 1 .. 32 |-> IF i = 32 - (k \div 8) THEN 2 ^ (k % 8) ELSE 0]

\* A word whose bytes 29, 30, 31 are b29, b30, b31 and whose bytes 0 .. 28 are
\* all fill.
LowBytesWord(fill, b29, b30, b31) ==
    [i \in 1 .. 32 |->
        IF i = 30 THEN b29 ELSE IF i = 31 THEN b30 ELSE IF i = 32 THEN b31 ELSE fill]

\* Bytes past the words a decoder reads.
Padding == [i \in 1 .. 32 |-> 171]

\* The first len bytes of the words followed by padding.
Response(words, len) == Answer(SubSeq(words \o Padding, 1, len))

Reserve0Words ==
    {ZeroWord, PowerWord(60), PowerWord(70), PowerWord(96), PowerWord(128)}

Reserve1Words ==
    {ZeroWord, PowerWord(1), PowerWord(42), PowerWord(126), PowerWord(128)}

ReservesLengths == {0, 32, 63, 64, 65, 96}

ReservesAnswers ==
    {ProviderError} \cup
    {Response(w0 \o w1, len) :
        w0 \in Reserve0Words, w1 \in Reserve1Words, len \in ReservesLengths}

ByteSamples == {0, 10, 127, 128, 255}

FillSamples == {0, 255}

TickWords ==
    {LowBytesWord(fill, b29, b30, b31) :
        fill \in FillSamples, b29 \in ByteSamples, b30 \in ByteSamples,
        b31 \in ByteSamples}

Slot0Lengths == {0, 96, 127, 128, 129, 160}

\* Answers to getSlot0 for the tick: every tick word under two sqrt prices.
TickAnswers ==
    {Response(sqrt \o tick \o ZeroWord \o LowBytesWord(0, 0, 11, 184), len) :
        sqrt \in {PowerWord(90), PowerWord(128)}, tick \in TickWords,
        len \in {127, 128, 160}}

SqrtPriceWords == {ZeroWord, PowerWord(86), PowerWord(90), PowerWord(127), PowerWord(128)}

FeeWords == {LowBytesWord(0, 0, 11, 184), LowBytesWord(255, 255, 255, 255)}

Slot0Answers ==
    {ProviderError} \cup
    {Response(sqrt \o LowBytesWord(255, 255, 0, 10) \o ZeroWord \o fee, len) :
        sqrt \in SqrtPriceWords, fee \in FeeWords, len \in Slot0Lengths}

LiquidityWords == {ZeroWord, PowerWord(60), PowerWord(127), PowerWord(128)}

LiquidityLengths == {0, 31, 32, 33, 64}

LiquidityAnswers ==
    {ProviderError} \cup
    {Response(w, len) : w \in LiquidityWords, len \in LiquidityLengths}

AmountsIn == {DecFromInt(-1), DecZero, DecFromInt(1), DecFromInt(10)}

\* The amounts the concentrated-liquidity calculator is tried on: those, and
\* two at which its modelled impact is 100% and 200%.
UniswapAmountsIn == AmountsIn \cup {DecFromInt(10000), DecFromInt(20000)}

\* The answers the calculators are tried on: every word at its exact width, a
\* failed call and a short answer.
QuoteReservesAnswers ==
    {ProviderError} \cup
    {Response(w0 \o w1, len) :
        w0 \in Reserve0Words, w1 \in Reserve1Words, len \in {63, 64}}

QuoteSlot0Answers ==
    {ProviderError} \cup
    {Response(sqrt \o LowBytesWord(255, 255, 0, 10) \o ZeroWord \o fee, len) :
        sqrt \in SqrtPriceWords, fee \in FeeWords, len \in {127, 128}}

QuoteLiquidityAnswers ==
    {ProviderError} \cup
    {Response(w, len) : w \in LiquidityWords \ {PowerWord(127)}, len \in {31, 32}}

NoAnswer == [tag |-> "NoAnswer"]

\* A call: op names the method; the fields a method does not take are inert.
VenueCall(op, reserves, slot0, liquidity, amount_in, zero_for_one, overflow_checks) ==
    [op |-> op, reserves |-> reserves, slot0 |-> slot0, liquidity |-> liquidity,
     amount_in |-> amount_in, zero_for_one |-> zero_for_one,
     overflow_checks |-> overflow_checks]

\* The u128 arguments get_amount_out is tried on: amounts up to 2^127 in and
\* around pools of 2^42 to 2^127 units.
AmountsInWei == {<< >>, <<1>>, BigPow10(18), BigPow2(115), BigPow2(127)}

ReservesIn == {<< >>, <<1>>, BigPow2(42), BigPow2(60), BigPow2(127)}

ReservesOut == {<< >>, <<2>>, BigPow2(42), BigPow2(70), BigPow2(127)}

\* A call of get_amount_out.
AmountOutCall(amount_in, reserve_in, reserve_out, overflow_checks) ==
    [op |-> "get_amount_out", amount_in_wei |-> amount_in, reserve_in |-> reserve_in,
     reserve_out |-> reserve_out, overflow_checks |-> overflow_checks]

InitDecode ==
    /\ \/ \E amount_in \in AmountsInWei, reserve_in \in ReservesIn,
             reserve_out \in ReservesOut, overflow_checks \in BOOLEAN :
             dx_args = AmountOutCall(amount_in, reserve_in, reserve_out,
                                     overflow_checks)
       \/ \E a \in ReservesAnswers, op \in {"get_reserves", "aerodrome.get_pool_state"} :
             dx_args = VenueCall(op, a, NoAnswer, NoAnswer, DecZero, TRUE, TRUE)
       \/ \E a \in QuoteReservesAnswers, amount_in \in AmountsIn,
             zero_for_one \in BOOLEAN, overflow_checks \in BOOLEAN :
             dx_args = VenueCall("aerodrome.calculate_swap_output", a, NoAnswer, NoAnswer,
                                 amount_in, zero_for_one, overflow_checks)
       \/ \E a \in Slot0Answers \cup TickAnswers :
             dx_args = VenueCall("read_slot0", NoAnswer, a, NoAnswer, DecZero, TRUE, TRUE)
       \/ \E a \in LiquidityAnswers :
             dx_args = VenueCall("read_liquidity", NoAnswer, NoAnswer, a, DecZero, TRUE,
                                 TRUE)
       \/ \E s \in Slot0Answers, l \in LiquidityAnswers :
             dx_args = VenueCall("uniswap.get_pool_state", NoAnswer, s, l, DecZero, TRUE,
                                 TRUE)
       \/ \E s \in QuoteSlot0Answers, l \in QuoteLiquidityAnswers,
             amount_in \in UniswapAmountsIn, zero_for_one \in BOOLEAN :
             dx_args = VenueCall("uniswap.calculate_swap_output", NoAnswer, s, l,
                                 amount_in, zero_for_one, TRUE)
    /\ dx_ret = None
    /\ dx_log = << >>
    /\ provider_calls = 0
    /\ eth_price_usd = analyzer_new
    /\ mutex = 0
    /\ poisoned = FALSE
    /\ pc = << >>
    /\ call = << >>
    /\ an_args = None
    /\ an_ret = None

\* The call of dx_args returns.
Returns(op, result) ==
    /\ dx_ret = None
    /\ dx_args.op = op
    /\ dx_ret' = result
    /\ UNCHANGED <<eth_price_usd, svc_vars, an_vars, dx_args, dx_log, provider_calls>>

GetReserves == Returns("get_reserves", get_reserves(dx_args.reserves))

AerodromeGetPoolState ==
    Returns("aerodrome.get_pool_state", aerodrome_get_pool_state(dx_args.reserves))

AerodromeCalculateSwapOutput ==
    Returns("aerodrome.calculate_swap_output",
            aerodrome_calculate_swap_output(dx_args.overflow_checks, dx_args.reserves,
                                            dx_args.amount_in, dx_args.zero_for_one))

GetAmountOut ==
    Returns("get_amount_out",
            get_amount_out(dx_args.overflow_checks, dx_args.amount_in_wei,
                           dx_args.reserve_in, dx_args.reserve_out))

ReadSlot0 == Returns("read_slot0", read_slot0(dx_args.slot0))

ReadLiquidity == Returns("read_liquidity", read_liquidity(dx_args.liquidity))

UniswapGetPoolState ==
    Returns("uniswap.get_pool_state",
            get_pool_state_internal(dx_args.slot0, dx_args.liquidity))

UniswapCalculateSwapOutput ==
    Returns("uniswap.calculate_swap_output",
            uniswap_calculate_swap_output(dx_args.slot0, dx_args.liquidity,
                                          dx_args.amount_in, dx_args.zero_for_one))

NextDecode ==
    \/ GetReserves
    \/ AerodromeGetPoolState
    \/ AerodromeCalculateSwapOutput
    \/ GetAmountOut
    \/ ReadSlot0
    \/ ReadLiquidity
    \/ UniswapGetPoolState
    \/ UniswapCalculateSwapOutput

SpecDecode == InitDecode /\ [][NextDecode]_vars

----------------------------------------------------------------------------
(* One client called several times.  The clients hold a provider and an    *)
(* address and every method takes &self: the service calls them again on   *)
(* every check.                                                            *)

\* The number of calls made on the client in one behaviour.
MaxCalls == 3

RepeatReservesAnswers ==
    {ProviderError} \cup
    {Response(w0 \o w1, len) :
        w0 \in {PowerWord(60), PowerWord(70)}, w1 \in {PowerWord(1), PowerWord(42)},
        len \in {63, 64}}

RepeatSlot0Answers ==
    {ProviderError} \cup
    {Response(sqrt \o LowBytesWord(255, 255, 0, 10) \o ZeroWord
                   \o LowBytesWord(0, 0, 11, 184), len) :
        sqrt \in {PowerWord(86), PowerWord(90)}, len \in {127, 128}}

RepeatLiquidityAnswers ==
    {ProviderError} \cup {Response(PowerWord(60), len) : len \in {31, 32}}

\* The first call on the client.
FirstCalls ==
    {AmountOutCall(BigPow10(18), BigPow2(60), reserve_out, TRUE) :
        reserve_out \in {<<2>>, BigPow2(42)}}
    \cup {VenueCall(op, a, NoAnswer, NoAnswer, DecZero, TRUE, TRUE) :
            op \in {"get_reserves", "aerodrome.get_pool_state"},
            a \in RepeatReservesAnswers}
    \cup {VenueCall("aerodrome.calculate_swap_output", a, NoAnswer, NoAnswer, amount_in,
                    zero_for_one, TRUE) :
            a \in RepeatReservesAnswers, amount_in \in {DecFromInt(1), DecFromInt(10)},
            zero_for_one \in BOOLEAN}
    \cup {VenueCall("read_slot0", NoAnswer, a, NoAnswer, DecZero, TRUE, TRUE) :
            a \in RepeatSlot0Answers}
    \cup {VenueCall("read_liquidity", NoAnswer, NoAnswer, a, DecZero, TRUE, TRUE) :
            a \in RepeatLiquidityAnswers}
    \cup {VenueCall("uniswap.get_pool_state", NoAnswer, s, l, DecZero, TRUE, TRUE) :
            s \in RepeatSlot0Answers, l \in RepeatLiquidityAnswers}
    \cup {VenueCall("uniswap.calculate_swap_output", NoAnswer, s, l, DecFromInt(1),
                    zero_for_one, TRUE) :
            s \in RepeatSlot0Answers, l \in RepeatLiquidityAnswers,
            zero_for_one \in BOOLEAN}

InitRepeat ==
    /\ dx_args \in FirstCalls
    /\ dx_ret = None
    /\ dx_log = << >>
    /\ provider_calls = 0
    /\ eth_price_usd = analyzer_new
    /\ mutex = 0
    /\ poisoned = FALSE
    /\ pc = << >>
    /\ call = << >>
    /\ an_args = None
    /\ an_ret = None

Calculators == {"aerodrome.calculate_swap_output", "uniswap.calculate_swap_output"}

\* The same quote asked for twice the amount.
Doubled(args) ==
    IF args.op \in Calculators
    THEN {[args EXCEPT !.amount_in = DecAdd(args.amount_in, args.amount_in)]}
    ELSE {}

\* Decodes of other responses, one of them too short, made between two calls.
OtherCalls ==
    {VenueCall("read_liquidity", NoAnswer, NoAnswer, Response(PowerWord(127), len),
               DecZero, TRUE, TRUE) : len \in {31, 32}}

\* The same quote asked when the pool has changed: the node answers with
\* other reserves, or with another sqrt price.
PoolChanged(args) ==
    IF args.op = "aerodrome.calculate_swap_output"
    THEN {[args EXCEPT !.reserves = Response(w0 \o PowerWord(42), 64)] :
            w0 \in {PowerWord(60), PowerWord(70)}} \ {args}
    ELSE IF args.op = "uniswap.calculate_swap_output"
    THEN {[args EXCEPT !.slot0 = Response(sqrt \o LowBytesWord(255, 255, 0, 10)
                                              \o ZeroWord
                                              \o LowBytesWord(0, 0, 11, 184), 128)] :
            sqrt \in {PowerWord(86), PowerWord(90)}} \ {args}
    ELSE {}

\* What the client is asked next: the same call, an earlier call, the quote
\* for twice the amount or on a changed pool, or another decode.
NextCalls ==
    {dx_args} \cup {dx_log[i].args : i \in DOMAIN dx_log}
        \cup Doubled(dx_args) \cup PoolChanged(dx_args) \cup OtherCalls

\* The client is called again once a call has returned.
CallAgain ==
    /\ dx_ret # None
    /\ Len(dx_log) + 1 < MaxCalls
    /\ dx_log' = Append(dx_log, [args |-> dx_args, ret |-> dx_ret])
    /\ dx_args' \in NextCalls
    /\ dx_ret' = None
    /\ UNCHANGED <<eth_price_usd, svc_vars, an_vars, provider_calls>>

NextRepeat ==
    \/ NextDecode
    \/ CallAgain

SpecRepeat == InitRepeat /\ [][NextRepeat]_vars

----------------------------------------------------------------------------
(* The gas estimators and the RpcClient methods under them, each called    *)
(* once on a client of some chain id with what the provider answers.       *)

ChainIds == {0, 1, 10, 8453, 8454}

GasBaseFees ==
    {<< >>, Gwei(10), BigPow2(70), BigPow2(80), BigSub(U256Limit, <<1>>)}

GasBlockAnswers ==
    {ProviderError, Answer(Nothing), Answer(Some([base_fee_per_gas |-> Nothing]))}
        \cup {Answer(Some([base_fee_per_gas |-> Some(f)])) : f \in GasBaseFees}

GasPriorityAnswers == {ProviderError, Answer(Gwei(1)), Answer(U64Limit)}

OracleAnswers ==
    {ProviderError, Answer(<<0, 0, 0>>), Answer(ZeroWord), Answer(WordOf(2000000)),
     Answer(PowerWord(64))}

GasPricesUsd == {DecFromInt(1), DecFromInt(3000)}

\* A call: the fields a method does not take are inert.
RpcCall(op, chain_id, block, priority, oracle, price_usd) ==
    [op |-> op, chain_id |-> chain_id, block |-> block, priority |-> priority,
     oracle |-> oracle, price_usd |-> price_usd]

InitGas ==
    /\ \/ \E chain_id \in ChainIds :
             dx_args = RpcCall("get_typical_swap_gas", chain_id, NoAnswer, NoAnswer,
                               NoAnswer, DecZero)
       \/ \E chain_id \in ChainIds, oracle \in OracleAnswers :
             dx_args = RpcCall("estimate_l1_data_fee", chain_id, NoAnswer, NoAnswer,
                               oracle, DecZero)
       \/ \E chain_id \in ChainIds, block \in GasBlockAnswers,
             priority \in GasPriorityAnswers, price_usd \in GasPricesUsd :
             dx_args = RpcCall("estimate_gas_usd_eth_swap", chain_id, block, priority,
                               NoAnswer, price_usd)
       \/ \E chain_id \in ChainIds, block \in GasBlockAnswers,
             priority \in GasPriorityAnswers, oracle \in OracleAnswers,
             price_usd \in GasPricesUsd :
             dx_args = RpcCall("estimate_gas_usd_base_swap", chain_id, block, priority,
                               oracle, price_usd)
    /\ dx_ret = None
    /\ dx_log = << >>
    /\ provider_calls = 0
    /\ eth_price_usd = analyzer_new
    /\ mutex = 0
    /\ poisoned = FALSE
    /\ pc = << >>
    /\ call = << >>
    /\ an_args = None
    /\ an_ret = None

\* The call of dx_args returns after sending the oracle so many requests.
RpcReturns(op, result, requests) ==
    /\ dx_ret = None
    /\ dx_args.op = op
    /\ dx_ret' = result
    /\ provider_calls' = provider_calls + requests
    /\ UNCHANGED <<eth_price_usd, svc_vars, an_vars, dx_args, dx_log>>

GetTypicalSwapGas ==
    RpcReturns("get_typical_swap_gas", get_typical_swap_gas(dx_args.chain_id), 0)

EstimateL1DataFee ==
    RpcReturns("estimate_l1_data_fee",
               estimate_l1_data_fee(dx_args.chain_id, dx_args.oracle),
               l1_fee_provider_calls(dx_args.chain_id))

EstimateGasUsdEthSwap ==
    RpcReturns("estimate_gas_usd_eth_swap",
               eth_swap_estimate(dx_args.chain_id, dx_args.block, dx_args.priority,
                                 dx_args.price_usd),
               0)

\* The oracle is read once l2_cost_wei is computed.
EstimateGasUsdBaseSwap ==
    /\ dx_args.op = "estimate_gas_usd_base_swap"
    /\ \E l2_cost_wei \in {base_swap_l2_cost(dx_args.chain_id, dx_args.block,
                                             dx_args.priority)} :
          RpcReturns("estimate_gas_usd_base_swap",
                     base_estimate_of_l2_cost(dx_args.chain_id, l2_cost_wei,
                                              dx_args.oracle, dx_args.price_usd),
                     IF l2_cost_wei.tag = "Ok"
                     THEN l1_fee_provider_calls(dx_args.chain_id) ELSE 0)

NextGas ==
    \/ GetTypicalSwapGas
    \/ EstimateL1DataFee
    \/ EstimateGasUsdEthSwap
    \/ EstimateGasUsdBaseSwap

SpecGas == InitGas /\ [][NextGas]_vars

----------------------------------------------------------------------------
(* Properties of concurrent checks on one service.                         *)

Returned(p) == pc[p] = "done"

\* The base fee a call read from a chain's latest block, if it read one.
BaseFeeRead(block) ==
    IF block.tag = "Ok" THEN block.val.base_fee_per_gas ELSE Nothing

\* The USD cost of gas units of gas at base_fee + priority_fee wei each, plus
\* extra_wei, at price_usd per ETH.
UsdOfGas(gas_units, base_fee, priority_fee, extra_wei, price_usd) ==
    LET wei == BigAdd(BigMul(BigFromNat(gas_units), BigAdd(base_fee, priority_fee)),
                      extra_wei)
    IN  DecMul(Dec(FALSE, wei, 18), price_usd)

\* What a call returns when it computes from nothing but what it read itself.
OwnOpportunity(c) ==
    LET price    == c.cex_price.val.price
        eth_gas  == UsdOfGas(165000, BaseFeeRead(c.eth_block).val,
                             c.eth_priority_fee.val, << >>, price)
        base_gas == UsdOfGas(88000, BaseFeeRead(c.base_block).val,
                             c.base_priority_fee.val, c.base_l1_fee.val, price)
        uni      == c.uniswap_quote.val
        aero     == c.aerodrome_quote.val
    IN  [trade_size_eth          |-> c.trade_size_eth,
         reference_cex_price_usd |-> price,
         uniswap_v4_details      |->
             [effective_price_usd    |-> uni.effective_price,
              price_impact_percent   |-> uni.price_impact,
              estimated_gas_cost_usd |-> eth_gas],
         aerodrome_details       |->
             [effective_price_usd    |-> aero.effective_price,
              price_impact_percent   |-> aero.price_impact,
              estimated_gas_cost_usd |-> base_gas],
         arbitrage_summary       |->
             analyze_opportunity_with_gas(price, uni, aero, c.trade_size_eth,
                                          price, eth_gas, base_gas).val]

\* C3: in every interleaving of concurrent checks on one service, each
\* ArbitrageOpportunity returned is the one computed from the reference price
\* and the reads of the call that returns it: its reference price, both gas
\* costs in USD and its summary are those of that price, whatever the analyzer's
\* stored price was when the gas was estimated and when the analysis ran.
C3_OwnPriceOnly ==
    \A p \in Calls :
        (Returned(p) /\ call[p].ret.tag = "Ok")
            => call[p].ret.val = OwnOpportunity(call[p])

\* A call returned an opportunity after analysing while the analyzer held a
\* price another call had written.
C3_Witness ==
    \E p \in Calls :
        /\ Returned(p)
        /\ call[p].ret.tag = "Ok"
        /\ call[p].analyzer_price.tag = "Ok"
        /\ call[p].analyzer_price.val # call[p].cex_price.val.price

\* C4: a check is stateless: when a call has returned, with an opportunity or
\* with an error, the analyzer holds what it held when the call began.
C4_AnalyzerAsOnEntry ==
    \A p \in Calls :
        (Returned(p) /\ \A q \in Calls \ {p} : pc[q] = "idle")
            => eth_price_usd = call[p].entry_eth_price_usd

\* The failures among what a call has read: failed reads, and latest blocks
\* that carry no base fee.
Failed(x) == IF x.tag \in {"none", "Ok"} THEN {} ELSE {x}

Failures(c) ==
    Failed(c.cex_price) \cup Failed(c.uniswap_quote) \cup Failed(c.aerodrome_quote)
        \cup Failed(c.eth_block) \cup Failed(c.eth_priority_fee)
        \cup Failed(c.eth_gas_cost_usd) \cup Failed(c.base_block)
        \cup Failed(c.base_priority_fee) \cup Failed(c.base_l2_cost_wei)
        \cup Failed(c.base_l1_fee) \cup Failed(c.base_gas_cost_usd)
        \cup (IF c.eth_block.tag = "Ok" /\ BaseFeeRead(c.eth_block).tag = "Nothing"
              THEN {Err(NoEthBaseFee)} ELSE {})
        \cup (IF c.base_block.tag = "Ok" /\ BaseFeeRead(c.base_block).tag = "Nothing"
              THEN {Err(NoBaseBaseFee)} ELSE {})

C6_NoDefaultGasPrice ==
    \A p \in Calls :
        LET c     == call[p]
            price == c.cex_price.val.price
        IN  /\ (c.eth_block.tag = "Ok" /\ BaseFeeRead(c.eth_block).tag = "Nothing")
                  => Returned(p) /\ c.ret = Err(NoEthBaseFee) /\ c.eth_gas_cost_usd = None
            /\ (c.base_block.tag = "Ok" /\ BaseFeeRead(c.base_block).tag = "Nothing")
                  => Returned(p) /\ c.ret = Err(NoBaseBaseFee) /\ c.base_gas_cost_usd = None
            /\ c.eth_priority_fee.tag = "Err"
                  => Returned(p) /\ c.ret = c.eth_priority_fee /\ c.eth_gas_cost_usd.tag = "Err"
            /\ c.base_priority_fee.tag = "Err"
                  => Returned(p) /\ c.ret = c.base_priority_fee /\ c.base_gas_cost_usd = None
            /\ c.eth_gas_cost_usd.tag = "Ok" =>
                  /\ BaseFeeRead(c.eth_block).tag = "Some"
                  /\ c.eth_priority_fee.tag = "Ok"
                  /\ c.eth_gas_cost_usd.val =
                        UsdOfGas(165000, BaseFeeRead(c.eth_block).val,
                                 c.eth_priority_fee.val, << >>, price)
            /\ c.base_gas_cost_usd.tag = "Ok" =>
                  /\ BaseFeeRead(c.base_block).tag = "Some"
                  /\ c.base_priority_fee.tag = "Ok"
                  /\ c.base_gas_cost_usd.val =
                        UsdOfGas(88000, BaseFeeRead(c.base_block).val,
                                 c.base_priority_fee.val, c.base_l1_fee.val, price)

\* Both estimates succeeded, the Ethereum one at 10 + 1 gwei and 3000 USD:
\* 165000 gas cost 5.445 USD; and some call returned for want of a base fee.
C6_Witness ==
    /\ \E p \in Calls :
          /\ call[p].base_gas_cost_usd.tag = "Ok"
          /\ BaseFeeRead(call[p].eth_block) = Some(Gwei(10))
          /\ call[p].cex_price.val.price = DecFromInt(3000)
          /\ call[p].eth_gas_cost_usd = Ok(DecLit(5445, 3))
    /\ \E p \in Calls :
          Returned(p) /\ call[p].ret \in {Err(NoEthBaseFee), Err(NoBaseBaseFee)}

----------------------------------------------------------------------------
(* Properties of the venue clients' decoders and calculators, over         *)
(* SpecDecode.                                                             *)

VenueReturned == dx_ret # None

\* The first 32-byte word of an answer, and its second.
Word0(answer) == SubSeq(answer.val, 1, 32)

Word1(answer) == SubSeq(answer.val, 33, 64)

IsZeroWord(word) == \A i \in 1 .. 32 : word[i] = 0

IsErr(result, message) == result.tag = "Err" /\ result.err = message

AerodromeOps ==
    {"get_reserves", "aerodrome.get_pool_state", "aerodrome.calculate_swap_output"}

\* C7: for every 64-byte reserves response of which a reserve word is zero,
\* get_reserves, and with it get_pool_state and calculate_swap_output of the
\* constant-product venue, returns the error of a pool without liquidity and
\* never a pool state or a quote.
C7_ZeroReserveIsNoLiquidity ==
    (/\ VenueReturned
     /\ dx_args.op \in AerodromeOps
     /\ dx_args.reserves.tag = "Answer"
     /\ Len(dx_args.reserves.val) = 64
     /\ IsZeroWord(Word0(dx_args.reserves)) \/ IsZeroWord(Word1(dx_args.reserves)))
        => IsErr(dx_ret, "ContractError: Pool has no liquidity")

\* C8: every PoolState either venue returns has liquidity > 0, and a liquidity
\* word that decodes to zero makes the pool-state read and the quote of the
\* concentrated-liquidity venue fail rather than return a state or a quote.
C8_LiquidityPositive ==
    VenueReturned =>
        /\ (/\ dx_args.op \in {"aerodrome.get_pool_state", "uniswap.get_pool_state"}
            /\ dx_ret.tag = "Ok")
               => dx_ret.val.liquidity # << >>
        /\ (/\ dx_args.op \in {"uniswap.get_pool_state",
                               "uniswap.calculate_swap_output"}
            /\ dx_args.liquidity.tag = "Answer"
            /\ Len(dx_args.liquidity.val) >= 32
            /\ IsZeroWord(Word0(dx_args.liquidity)))
               => dx_ret.tag # "Ok"

\* The answer a decoder reads, the fixed width of its kind and the error of an
\* answer shorter than that.
DecodedAnswer ==
    IF dx_args.op = "read_slot0" THEN dx_args.slot0
    ELSE IF dx_args.op = "read_liquidity" THEN dx_args.liquidity
    ELSE dx_args.reserves

FixedWidth ==
    IF dx_args.op = "read_slot0" THEN 128
    ELSE IF dx_args.op = "read_liquidity" THEN 32
    ELSE 64

LengthError ==
    IF dx_args.op = "read_slot0" THEN "ContractError: Invalid slot0 response"
    ELSE IF dx_args.op = "read_liquidity"
    THEN "ContractError: Invalid liquidity response"
    ELSE "ContractError: Invalid reserves response - insufficient data"

AtLeast(answer, width) == answer.tag = "Answer" /\ Len(answer.val) >= width

\* C9: a decoder rejects a contract response for its length, and then yields no
\* pool state, exactly when the response is shorter than the fixed width of its
\* kind: 64 bytes for the reserves, 128 for slot0, 32 for the liquidity.  A
\* pool state is returned only from responses of at least these widths.
C9_RejectedIffShort ==
    VenueReturned =>
        /\ (/\ dx_args.op \in {"get_reserves", "aerodrome.get_pool_state",
                               "read_slot0", "read_liquidity"}
            /\ DecodedAnswer.tag = "Answer")
               => (IsErr(dx_ret, LengthError)
                      <=> Len(DecodedAnswer.val) < FixedWidth)
        /\ (dx_args.op = "aerodrome.get_pool_state" /\ dx_ret.tag = "Ok")
               => AtLeast(dx_args.reserves, 64)
        /\ (dx_args.op = "uniswap.get_pool_state" /\ dx_ret.tag = "Ok")
               => AtLeast(dx_args.slot0, 128) /\ AtLeast(dx_args.liquidity, 32)
        /\ (/\ dx_args.op = "uniswap.get_pool_state"
            /\ dx_args.slot0.tag = "Answer"
            /\ Len(dx_args.slot0.val) < 128)
               => IsErr(dx_ret, "ContractError: Invalid slot0 response")

\* A 32-byte liquidity response is decoded, a 31-byte one was rejected.
C9_Witness ==
    /\ VenueReturned
    /\ dx_args.op = "read_liquidity"
    /\ dx_ret.tag = "Ok"
    /\ Len(dx_args.liquidity.val) = 32
    /\ dx_ret.val = BigPow2(60)

\* The 24-bit two's complement value of bytes 29 .. 31 of a word.
SignExtend24(word) ==
    word[30] * 65536 + word[31] * 256 + word[32]
        - (IF word[30] >= 128 THEN 16777216 ELSE 0)

\* The tick of what read_slot0 or get_pool_state_internal returned.
DecodedTick == IF dx_args.op = "read_slot0" THEN dx_ret.val[2] ELSE dx_ret.val.tick

\* C10: the tick decoded from a slot0 response of at least 128 bytes is the
\* 24-bit two's complement value of bytes 29 .. 31 of the second word: negative
\* exactly when byte 29 has its top bit set, within [-2^23, 2^23 - 1], whatever
\* bytes 0 .. 28 are.
C10_TickSignExtended ==
    (/\ VenueReturned
     /\ dx_args.op \in {"read_slot0", "uniswap.get_pool_state"}
     /\ dx_ret.tag = "Ok")
        => /\ Len(dx_args.slot0.val) >= 128
           /\ DecodedTick = SignExtend24(Word1(dx_args.slot0))
           /\ DecodedTick < 0 <=> Word1(dx_args.slot0)[30] >= 128
           /\ DecodedTick >= -8388608
           /\ DecodedTick <= 8388607

\* The most negative tick, decoded under bytes 0 .. 28 that are all 0xFF.
C10_Witness ==
    /\ VenueReturned
    /\ dx_args.op = "read_slot0"
    /\ dx_ret.tag = "Ok"
    /\ Word1(dx_args.slot0)[1] = 255
    /\ Word1(dx_args.slot0)[30] = 128
    /\ dx_ret.val[2] = -8388608

\* Bytes 29, 30, 31 of the tick word of the slot0 response.
TickLowBytes == <<Word1(dx_args.slot0)[30], Word1(dx_args.slot0)[31],
                  Word1(dx_args.slot0)[32]>>

Slot0Decoded == VenueReturned /\ dx_args.op = "read_slot0" /\ dx_ret.tag = "Ok"

\* C11, as the code has it: a tick word whose low three bytes are
\* [0x00,0x80,0x00] decodes to 32768, [0xFF,0x00,0x00] to -65536 and
\* [0x00,0x00,0x0A] to 10; the tick is negative when the high bit of byte 29,
\* the high byte of the three, is set and non-negative when it is clear,
\* whatever the high bits of bytes 30 and 31 are.
C11_TickExamples ==
    Slot0Decoded =>
        /\ TickLowBytes = <<0, 128, 0>> => dx_ret.val[2] = 32768
        /\ TickLowBytes = <<255, 0, 0>> => dx_ret.val[2] = -65536
        /\ TickLowBytes = <<0, 0, 10>> => dx_ret.val[2] = 10
        /\ TickLowBytes[1] >= 128 => dx_ret.val[2] < 0
        /\ TickLowBytes[1] < 128 => dx_ret.val[2] >= 0

\* The bytes [0x00,0x80,0x00] decoded.
C11_Witness ==
    /\ Slot0Decoded
    /\ TickLowBytes = <<0, 128, 0>>
    /\ dx_ret.val[2] = 32768

\* C11 as stated: [0x00,0x80,0x00] decodes to -65536 and [0x00,0x00,0x0A] to
\* 10, and the tick is negative exactly when the high bit of the low byte is
\* set.
C11_AsStated ==
    Slot0Decoded =>
        /\ TickLowBytes = <<0, 128, 0>> => dx_ret.val[2] = -65536
        /\ TickLowBytes = <<0, 0, 10>> => dx_ret.val[2] = 10
        /\ TickLowBytes[3] >= 128 <=> dx_ret.val[2] < 0

\* The low 128 bits of a 32-byte big-endian word.
Low128(word) == BigMod(from_big_endian(word), U128Limit)

\* C12: whatever the value of a 32-byte word, 2^128 and more included, the
\* decoders do not abort: read_slot0 and read_liquidity return the word
\* truncated to its low 128 bits, and get_reserves returns the reserves or a
\* typed error.
C12_NoAbort ==
    VenueReturned =>
        /\ (dx_args.op = "read_slot0" /\ AtLeast(dx_args.slot0, 128))
               => /\ dx_ret.tag = "Ok"
                  /\ dx_ret.val[1] = Low128(Word0(dx_args.slot0))
        /\ (dx_args.op = "read_liquidity" /\ AtLeast(dx_args.liquidity, 32))
               => /\ dx_ret.tag = "Ok"
                  /\ dx_ret.val = Low128(Word0(dx_args.liquidity))
        /\ (dx_args.op = "get_reserves" /\ AtLeast(dx_args.reserves, 64))
               => dx_ret.tag \in {"Ok", "Err"}

\* floor(amount_in * 9999 / 10000) over the integers.
FeeAdjustedInput(amount_in) == BigDiv(BigMul(amount_in, BigFromNat(9999)), BigFromNat(10000))

\* floor(f * reserve_out / (reserve_in + f)) over the integers.
ConstantProductOutput(amount_in, reserve_in, reserve_out) ==
    BigDiv(BigMul(FeeAdjustedInput(amount_in), reserve_out),
           BigAdd(reserve_in, FeeAdjustedInput(amount_in)))

\* C13: for every 128-bit amount and nonzero 128-bit reserves get_amount_out
\* returns floor(f * reserveOut / (reserveIn + f)), f = floor(amount_in * 9999
\* / 10000), of the exact integers, or a typed error where a magnitude cannot
\* be represented: nothing wraps around and nothing aborts.
C13_ExactOrTypedError ==
    (/\ VenueReturned
     /\ dx_args.op = "get_amount_out"
     /\ dx_args.reserve_in # << >>
     /\ dx_args.reserve_out # << >>)
        => \/ dx_ret.tag = "Err"
           \/ /\ dx_ret.tag = "Ok"
              /\ dx_ret.val = ConstantProductOutput(dx_args.amount_in_wei,
                                                    dx_args.reserve_in,
                                                    dx_args.reserve_out)

AerodromeQuoted ==
    /\ VenueReturned
    /\ dx_args.op = "aerodrome.calculate_swap_output"
    /\ dx_ret.tag = "Ok"

\* A Decimal of at most k decimal places in units of 10^-k.
UnitsOf(dec, k) == BigMul(dec.m, BigPow10(k - dec.s))

\* C14: for positive reserves and a positive input, in either direction, the
\* quote of the constant-product calculator has a price impact >= 0, and in the
\* zeroForOne direction its output is strictly less than a * r1 / r0.
C14_QuoteBelowSpot ==
    (AerodromeQuoted /\ DecGt(dx_args.amount_in, DecZero))
        => /\ ~DecIsNeg(dx_ret.val.price_impact)
           /\ dx_args.zero_for_one
                 => BigLt(BigMul(UnitsOf(dx_ret.val.amount_out, 6),
                                 from_big_endian(Word0(dx_args.reserves))),
                          BigMul(UnitsOf(dx_args.amount_in, 18),
                                 from_big_endian(Word1(dx_args.reserves))))

\* The calls made so far, the current one last.
CallsMade == Append(dx_log, [args |-> dx_args, ret |-> dx_ret])

\* Calls i and j are quotes of the constant-product calculator on the same
\* reserves in the same direction, j for twice the positive amount of i.
DoubledQuotes(i, j) ==
    /\ CallsMade[i].args.op = "aerodrome.calculate_swap_output"
    /\ CallsMade[j].args.op = "aerodrome.calculate_swap_output"
    /\ CallsMade[i].ret.tag = "Ok"
    /\ CallsMade[j].ret.tag = "Ok"
    /\ CallsMade[i].args.reserves = CallsMade[j].args.reserves
    /\ CallsMade[i].args.zero_for_one = CallsMade[j].args.zero_for_one
    /\ DecGt(CallsMade[i].args.amount_in, DecZero)
    /\ CallsMade[j].args.amount_in
          = DecAdd(CallsMade[i].args.amount_in, CallsMade[i].args.amount_in)

\* C15: for fixed positive reserves and a positive input a, the quote for 2a
\* has a strictly smaller effective_price than the quote for a.
C15_DoublingLowersPrice ==
    \A i \in DOMAIN CallsMade : \A j \in DOMAIN CallsMade :
        DoubledQuotes(i, j)
            => DecGt(CallsMade[i].ret.val.effective_price,
                     CallsMade[j].ret.val.effective_price)

----------------------------------------------------------------------------
(* Properties of the gas estimators.                                       *)

RpcReturned(op) == dx_ret # None /\ dx_args.op = op

GasEstimated ==
    /\ dx_ret # None
    /\ dx_args.op \in {"estimate_gas_usd_eth_swap", "estimate_gas_usd_base_swap"}
    /\ dx_ret.tag = "Ok"

\* What an estimate that succeeded has read.
BaseFeeGiven == dx_args.block.val.val.base_fee_per_gas.val

PriorityFeeGiven == dx_args.priority.val

OracleFeeGiven == from_big_endian(SubSeq(dx_args.oracle.val, 1, 32))

TypicalGasUnits == IF dx_args.chain_id = 1 THEN 150000 ELSE 80000

BufferedGasUnits == (TypicalGasUnits * 110) \div 100

\* The L1 data fee belongs to the rollup's estimate only.
L1Component ==
    IF dx_args.op = "estimate_gas_usd_base_swap" /\ dx_args.chain_id = 8453
    THEN OracleFeeGiven ELSE << >>

CostWei ==
    BigAdd(BigMul(BigFromNat(BufferedGasUnits), BigAdd(BaseFeeGiven, PriorityFeeGiven)),
           L1Component)

\* Base fee 10_000_000_000 wei and priority fee 1_000_000_000 wei on chain 1.
ExampleFees ==
    /\ dx_args.op = "estimate_gas_usd_eth_swap"
    /\ dx_args.chain_id = 1
    /\ dx_args.block = Answer(Some([base_fee_per_gas |-> Some(Gwei(10))]))
    /\ dx_args.priority = Answer(Gwei(1))

\* C16: an estimate that succeeds is (floor(typical * 110 / 100) * (baseFee +
\* priorityFee), plus the L1 data fee on the rollup only) / 10^18 times the
\* reference price; base fee 10 gwei, priority fee 1 gwei and 150000 units give
\* 165000 buffered units and 1_815_000_000_000_000 wei.
C16_BufferedGasCost ==
    GasEstimated
        => /\ dx_ret.val = DecMul(Dec(FALSE, CostWei, 18), dx_args.price_usd)
           /\ ExampleFees
                 => /\ BufferedGasUnits = 165000
                    /\ CostWei = BigMul(BigFromNat(1815), BigPow10(12))
                    /\ dx_args.price_usd = DecFromInt(1)
                          => dx_ret.val = Dec(FALSE, BigFromNat(1815), 6)

C16_Witness ==
    /\ GasEstimated
    /\ ExampleFees
    /\ dx_args.price_usd = DecFromInt(1)
    /\ dx_ret.val = Dec(FALSE, BigFromNat(1815), 6)

SupportedChains == {1, 8453}

\* C17: get_typical_swap_gas returns 150000 on chain 1 and 80000 on chain
\* 8453; on any other chain it fails with the unsupported-chain error, and no
\* gas estimate on such a chain succeeds.
C17_UnsupportedChainFails ==
    /\ RpcReturned("get_typical_swap_gas")
          => /\ dx_args.chain_id = 1 => dx_ret = Ok(150000)
             /\ dx_args.chain_id = 8453 => dx_ret = Ok(80000)
             /\ dx_args.chain_id \notin SupportedChains
                   => IsErr(dx_ret, "RpcError: Unsupported chain ID")
    /\ (\/ RpcReturned("estimate_gas_usd_eth_swap")
        \/ RpcReturned("estimate_gas_usd_base_swap"))
          => (dx_args.chain_id \notin SupportedChains => dx_ret.tag # "Ok")

\* An estimate on chain 10 whose fee reads all succeeded fails for the chain.
C17_Witness ==
    /\ RpcReturned("estimate_gas_usd_eth_swap")
    /\ dx_args.chain_id = 10
    /\ dx_args.block = Answer(Some([base_fee_per_gas |-> Some(Gwei(10))]))
    /\ dx_args.priority = Answer(Gwei(1))
    /\ IsErr(dx_ret, "RpcError: Unsupported chain ID")

\* The dollars of so many buffered gas units at the fees read, plus a fee in wei.
UsdOfUnits(buffered_units, extra_wei) ==
    DecMul(Dec(FALSE,
               BigAdd(BigMul(BigFromNat(buffered_units),
                             BigAdd(BaseFeeGiven, PriorityFeeGiven)),
                      extra_wei),
               18),
           dx_args.price_usd)

\* C18: off chain 8453 estimate_l1_data_fee returns 0 without asking the
\* oracle, whatever the oracle would answer; the Ethereum estimate asks nothing
\* and holds no L1 fee, and a Base estimate that succeeds has asked the oracle
\* once and holds the fee it answered.
C18_L1FeeByChainId ==
    /\ (RpcReturned("estimate_l1_data_fee") /\ dx_args.chain_id # 8453)
          => dx_ret = Ok(<< >>) /\ provider_calls = 0
    /\ RpcReturned("estimate_gas_usd_eth_swap")
          => /\ provider_calls = 0
             /\ (dx_args.chain_id = 1 /\ dx_ret.tag = "Ok")
                   => dx_ret.val = UsdOfUnits(165000, << >>)
    /\ (RpcReturned("estimate_gas_usd_base_swap") /\ dx_args.chain_id = 8453
            /\ dx_ret.tag = "Ok")
          => /\ provider_calls = 1
             /\ dx_args.oracle.tag = "Answer"
             /\ dx_ret.val = UsdOfUnits(88000, OracleFeeGiven)

\* The oracle would have answered a fee of 2000000 wei, and is not asked.
C18_Witness ==
    /\ RpcReturned("estimate_l1_data_fee")
    /\ dx_args.chain_id = 1
    /\ dx_args.oracle = Answer(WordOf(2000000))
    /\ dx_ret = Ok(<< >>)
    /\ provider_calls = 0

\* C19: a quote of either calculator for an amount_in > 0 has effective_price
\* = amount_out / amount_in.
C19_EffectivePriceIsRatio ==
    (/\ VenueReturned
     /\ dx_args.op \in Calculators
     /\ dx_ret.tag = "Ok"
     /\ DecGt(dx_args.amount_in, DecZero))
        => dx_ret.val.effective_price = DecDiv(dx_ret.val.amount_out, dx_args.amount_in)

\* The same of the constant-product calculator alone.
AerodromePriceIsRatio ==
    (AerodromeQuoted /\ DecGt(dx_args.amount_in, DecZero))
        => dx_ret.val.effective_price = DecDiv(dx_ret.val.amount_out, dx_args.amount_in)

DecodeOps ==
    {"get_reserves", "aerodrome.get_pool_state", "read_slot0", "read_liquidity",
     "uniswap.get_pool_state"}

\* Calls i and j are returned decodes by the same method of the same bytes.
SameDecode(i, j) ==
    /\ CallsMade[i].args.op \in DecodeOps
    /\ CallsMade[j].args.op = CallsMade[i].args.op
    /\ CallsMade[i].ret # None
    /\ CallsMade[j].ret # None
    /\ CallsMade[i].args.reserves = CallsMade[j].args.reserves
    /\ CallsMade[i].args.slot0 = CallsMade[j].args.slot0
    /\ CallsMade[i].args.liquidity = CallsMade[j].args.liquidity

----------------------------------------------------------------------------
(* A check after a failed check.                                           *)

\* The call made every read and both estimates, and each succeeded.
ReadsComplete(c) ==
    /\ Joined(c)
    /\ c.eth_gas_cost_usd.tag = "Ok"
    /\ c.base_gas_cost_usd.tag = "Ok"

\* The analysis of the call's own two quotes panics.
OwnAnalysisPanics(c) ==
    analyze_opportunity_with_gas(c.cex_price.val.price, c.uniswap_quote.val,
                                 c.aerodrome_quote.val, c.trade_size_eth,
                                 c.cex_price.val.price, DecZero, DecZero).tag = "Panic"

\* What the call returns on a service that no other call has used.
OwnResult(c) ==
    IF OwnAnalysisPanics(c) THEN Panic("Multiplication overflowed")
    ELSE Ok(OwnOpportunity(c))

\* The quotes given for the large trade are those the two calculators compute
\* for it on the pools named there.
LargeTradeQuotesAsCalculated ==
    /\ uniswap_calculate_swap_output(
           Response(PowerWord(95) \o LowBytesWord(255, 255, 0, 10) \o ZeroWord
                        \o LowBytesWord(0, 0, 11, 184), 128),
           Response(PowerWord(60), 32), LargeTrade, TRUE)
         = Ok(LargeTradeUniswapQuote)
    /\ \A overflow_checks \in BOOLEAN :
           aerodrome_calculate_swap_output(
               overflow_checks, Response(PowerWord(60) \o PowerWord(32), 64),
               LargeTrade, TRUE)
             = Ok(LargeTradeAerodromeQuote)

\* C21: a failed check is not fatal to the service: a call none of whose reads
\* and estimates fails makes them all and returns exactly what it would return
\* had no other call been made, whatever calls failed before it.
C21_FailureNotFatal ==
    \A p \in Calls :
        (Returned(p) /\ Failures(call[p]) = {})
            => /\ ReadsComplete(call[p])
               /\ call[p].ret = OwnResult(call[p])

\* The same of the calls that return while no call has panicked under the
\* analyzer's lock.
FailureNotFatalUnpoisoned ==
    \A p \in Calls :
        (Returned(p) /\ Failures(call[p]) = {} /\ ~poisoned)
            => /\ ReadsComplete(call[p])
               /\ call[p].ret = OwnResult(call[p])

\* A call whose three reads succeeded returned the panic of the poisoned lock.
PoisonedCallReturned ==
    \E p \in Calls :
        /\ Returned(p)
        /\ Joined(call[p])
        /\ Failures(call[p]) = {}
        /\ call[p].ret = PoisonError

----------------------------------------------------------------------------
(* Quotes of one client on a pool that changes.                            *)

\* The quote computed from the responses the node gave to the reads of the call
\* itself.
QuoteOfOwnRead(args) ==
    IF args.op = "aerodrome.calculate_swap_output"
    THEN aerodrome_quote_from_reserves(args.overflow_checks, get_reserves(args.reserves),
                                       args.amount_in, args.zero_for_one)
    ELSE uniswap_quote_from_state(get_pool_state_internal(args.slot0, args.liquidity),
                                  args.amount_in, args.zero_for_one)

\* Calls i and j ask one calculator for the same amount in the same direction.
SameQuoteAsked(i, j) ==
    /\ CallsMade[i].args.op \in Calculators
    /\ CallsMade[j].args.op = CallsMade[i].args.op
    /\ CallsMade[i].args.amount_in = CallsMade[j].args.amount_in
    /\ CallsMade[i].args.zero_for_one = CallsMade[j].args.zero_for_one
    /\ CallsMade[i].ret # None
    /\ CallsMade[j].ret # None

UniswapRequotedWitness ==
    /\ Len(CallsMade) >= 2
    /\ SameQuoteAsked(1, 2)
    /\ CallsMade[1].args.op = "uniswap.calculate_swap_output"
    /\ CallsMade[1].args.slot0 # CallsMade[2].args.slot0
    /\ CallsMade[1].ret.tag = "Ok"
    /\ CallsMade[2].ret.tag = "Ok"
    /\ CallsMade[2].ret # CallsMade[1].ret

----------------------------------------------------------------------------
(* One check on the two calculators: the quotes of both venues for the     *)
(* trade size, then the analysis of the two quotes with the gas costs of   *)
(* the check.                                                              *)

CheckTradeSizes == {DecZero, DecFromInt(1)}

CheckReservesAnswers ==
    {ProviderError} \cup
    {Response(w0 \o PowerWord(42), 64) : w0 \in {ZeroWord, PowerWord(60), PowerWord(70)}}

CheckSlot0Answers ==
    {ProviderError} \cup
    {Response(sqrt \o LowBytesWord(255, 255, 0, 10) \o ZeroWord
                   \o LowBytesWord(0, 0, 11, 184), 128) :
        sqrt \in {PowerWord(86), PowerWord(90)}}

CheckGasUsd == {DecFromInt(-1), DecZero, DecFromInt(3)}

\* A check: the trade size, what the node answers to the reads of the two
\* calculators, and the two gas costs the estimators gave.
CheckCall(trade_size_eth, reserves, slot0, overflow_checks, eth_gas_cost_usd, base_gas_cost_usd) ==
    [op |-> "check_arbitrage_opportunity", amount_in |-> trade_size_eth,
     reserves |-> reserves, slot0 |-> slot0, liquidity |-> Response(PowerWord(60), 32),
     overflow_checks |-> overflow_checks, eth_gas_cost_usd |-> eth_gas_cost_usd,
     base_gas_cost_usd |-> base_gas_cost_usd]

InitCheck ==
    /\ \E trade_size_eth \in CheckTradeSizes, reserves \in CheckReservesAnswers,
          slot0 \in CheckSlot0Answers, overflow_checks \in BOOLEAN,
          eth_gas_cost_usd \in CheckGasUsd, base_gas_cost_usd \in CheckGasUsd :
          dx_args = CheckCall(trade_size_eth, reserves, slot0, overflow_checks,
                              eth_gas_cost_usd, base_gas_cost_usd)
    /\ dx_ret = None
    /\ dx_log = << >>
    /\ provider_calls = 0
    /\ eth_price_usd = analyzer_new
    /\ mutex = 0
    /\ poisoned = FALSE
    /\ pc = << >>
    /\ call = << >>
    /\ an_args = None
    /\ an_ret = None

\* The quotes the check has so far from the venue.
QuotesFrom(venue) == {i \in DOMAIN dx_log : dx_log[i].args.op = venue}

\* A calculator returns to the check: a result that is not a quote ends the
\* check.
CheckQuoted(venue, result) ==
    /\ dx_ret = None
    /\ QuotesFrom(venue) = {}
    /\ dx_log' = Append(dx_log, [args |-> [op |-> venue], ret |-> result])
    /\ dx_ret' = IF result.tag = "Ok" THEN None ELSE result
    /\ UNCHANGED <<eth_price_usd, svc_vars, an_vars, dx_args, provider_calls>>

CheckUniswapQuote ==
    CheckQuoted("uniswap.calculate_swap_output",
                uniswap_calculate_swap_output(dx_args.slot0, dx_args.liquidity,
                                              dx_args.amount_in, TRUE))

CheckAerodromeQuote ==
    CheckQuoted("aerodrome.calculate_swap_output",
                aerodrome_calculate_swap_output(dx_args.overflow_checks, dx_args.reserves,
                                                dx_args.amount_in, TRUE))

\* The quote the check has from the venue.
QuoteFrom(venue) == dx_log[CHOOSE i \in QuotesFrom(venue) : TRUE].ret.val

\* The arguments of the analysis of the check.
CheckAnalyzerArgs ==
    [uniswap_quote     |-> QuoteFrom("uniswap.calculate_swap_output"),
     aerodrome_quote   |-> QuoteFrom("aerodrome.calculate_swap_output"),
     trade_size_eth    |-> dx_args.amount_in,
     cex_price         |-> DecFromInt(3000),
     eth_gas_cost_usd  |-> dx_args.eth_gas_cost_usd,
     base_gas_cost_usd |-> dx_args.base_gas_cost_usd]

\* Lines 93-101 of the service: both quotes are there, and the summary of the
\* analysis is what the check returns.
CheckAnalyze ==
    /\ dx_ret = None
    /\ QuotesFrom("uniswap.calculate_swap_output") # {}
    /\ QuotesFrom("aerodrome.calculate_swap_output") # {}
    /\ \E a \in {CheckAnalyzerArgs} :
       \E r \in {analyze_opportunity_with_gas(
                     eth_price_usd, a.uniswap_quote, a.aerodrome_quote, a.trade_size_eth,
                     a.cex_price, a.eth_gas_cost_usd, a.base_gas_cost_usd)} :
           /\ an_args' = a
           /\ an_ret' = r
           /\ dx_ret' = r
    /\ UNCHANGED <<eth_price_usd, svc_vars, dx_args, dx_log, provider_calls>>

NextCheck ==
    \/ CheckUniswapQuote
    \/ CheckAerodromeQuote
    \/ CheckAnalyze

SpecCheck == InitCheck /\ [][NextCheck]_vars

\* The check has returned a summary.
CheckSummarised == dx_ret.tag = "Ok" /\ an_ret = dx_ret

GasNonNegative ==
    /\ ~DecIsNeg(dx_args.eth_gas_cost_usd)
    /\ ~DecIsNeg(dx_args.base_gas_cost_usd)

\* C23: a check with trade size zero never returns ArbitrageDetected when both
\* gas costs are non-negative: every quote of the constant-product calculator
\* has the effective price 3000, and the summary has a potential profit of 0
\* whatever the two effective prices are, a net profit of minus the total gas
\* cost, which is not positive, and the action NoArbitrage.
C23_ZeroTradeNoArbitrage ==
    dx_args.amount_in = DecZero =>
        /\ \A i \in QuotesFrom("aerodrome.calculate_swap_output") :
               dx_log[i].ret.tag = "Ok"
                   => dx_log[i].ret.val.effective_price = DecFromInt(3000)
        /\ (CheckSummarised /\ GasNonNegative) =>
               /\ dx_ret.val.potential_profit_usd = DecZero
               /\ dx_ret.val.total_gas_cost_usd
                     = DecAdd(dx_args.eth_gas_cost_usd, dx_args.base_gas_cost_usd)
               /\ dx_ret.val.net_profit_usd = DecNeg(dx_ret.val.total_gas_cost_usd)
               /\ ~DecGt(dx_ret.val.net_profit_usd, DecZero)
               /\ dx_ret.val.recommended_action = "NoArbitrage"
        /\ (dx_ret # None /\ GasNonNegative) =>
               ~(dx_ret.tag = "Ok" /\ dx_ret.val.recommended_action = "ArbitrageDetected")

\* A check of size zero returned NoArbitrage on quotes of 3000 and of another
\* price, with a gas cost of 3 dollars.
C23_Witness ==
    /\ dx_args.amount_in = DecZero
    /\ CheckSummarised
    /\ dx_args.eth_gas_cost_usd = DecFromInt(3)
    /\ dx_args.base_gas_cost_usd = DecZero
    /\ an_args.aerodrome_quote.effective_price = DecFromInt(3000)
    /\ an_args.uniswap_quote.effective_price # DecFromInt(3000)
    /\ dx_ret.val.net_profit_usd = DecFromInt(-3)
    /\ dx_ret.val.recommended_action = "NoArbitrage"

\* With a negative gas cost the check of size zero returns ArbitrageDetected.
ZeroTradeDetectedOnNegativeGas ==
    /\ dx_args.amount_in = DecZero
    /\ CheckSummarised
    /\ ~GasNonNegative
    /\ dx_ret.val.recommended_action = "ArbitrageDetected"

----------------------------------------------------------------------------
(* The analyzer's Mutex and the progress of the calls.                     *)

\* The call waits for an external read to return.
AtRead(p) ==
    pc[p] \in {"join", "eth_block", "eth_priority_fee", "base_block",
               "base_priority_fee", "base_l1_fee"}

\* The call is blocked in lock().
AtLock(p) == pc[p] \in {"update", "analyze"}

\* The Mutex is held only by a call that is in the synchronous code of lines
\* 93-114.
MutexNotHeldAtRead ==
    \A p \in Calls : mutex = p => (pc[p] = "analyzing" /\ ~AtRead(p))

\* The call has returned an ArbitrageOpportunity or an error.
ReturnedResultOrError(p) == Returned(p) /\ call[p].ret.tag \in {"Ok", "Err"}

\* A call that has begun returns a result or an error.
EveryCallReturns ==
    \A p \in Calls : (pc[p] # "idle") ~> ReturnedResultOrError(p)

\* C24: in every interleaving of concurrent calls the analyzer's Mutex is never
\* held by a call that waits on an external read, and every call whose reads
\* all return eventually returns a result or an error.
C24_NoCallWaitsForever == []MutexNotHeldAtRead /\ EveryCallReturns

\* A call that has begun ends: it returns, or it unwinds with a panic.
EveryCallEnds == \A p \in Calls : (pc[p] # "idle") ~> Returned(p)

\* No call waits forever, for a read or for the Mutex.
NoCallWaitsForever == []MutexNotHeldAtRead /\ EveryCallEnds

\* A call whose reads all returned has ended in a panic.
PanickedAfterReads ==
    \E p \in Calls :
        /\ Returned(p)
        /\ Failures(call[p]) = {}
        /\ call[p].ret.tag = "Panic"

\* A call is blocked in lock() while another call holds the Mutex.
C24_Witness ==
    \E p \in Calls : \E q \in Calls :
        /\ mutex = p
        /\ q # p
        /\ AtLock(q)

\* A call waits on a read while another call holds the Mutex.
ReadDuringAnalysis ==
    \E p \in Calls : \E q \in Calls :
        /\ mutex = p
        /\ q # p
        /\ AtRead(q)

----------------------------------------------------------------------------
(* The sign of the concentrated-liquidity quote.                           *)

\* The call is a quote of the concentrated-liquidity calculator, base asset
\* in, that returned a SwapQuote.
UniswapQuotedBaseIn ==
    /\ dx_args.op = "uniswap.calculate_swap_output"
    /\ dx_args.zero_for_one
    /\ dx_ret.tag = "Ok"

\* The spot price of lines 140-144 for the pool state the call read.
SpotPriceRead ==
    spot_price_of(get_pool_state_internal(dx_args.slot0, dx_args.liquidity)
                      .val.sqrt_price_x96).val

\* The fee the call decoded from the last word of slot0.
FeeRead == get_pool_state_internal(dx_args.slot0, dx_args.liquidity).val.fee

\* The quote is of a positive trade size at a positive spot price.
PositiveTradeAndSpot ==
    /\ UniswapQuotedBaseIn
    /\ DecGt(dx_args.amount_in, DecZero)
    /\ DecGt(SpotPriceRead, DecZero)

\* C25: for every positive trade size and positive spot price the quote of the
\* concentrated-liquidity calculator, base asset in, has an effective price
\* above zero and an amount out that is not negative, for any decoded fee.
C25_UniswapQuotePositive ==
    PositiveTradeAndSpot
        => /\ DecGt(dx_ret.val.effective_price, DecZero)
           /\ ~DecIsNeg(dx_ret.val.amount_out)

\* The same of the trades below 10000 units of the base asset on pools whose
\* fee is at most 1,000,000.
UniswapQuotePositiveInRange ==
    (/\ PositiveTradeAndSpot
     /\ DecGt(DecFromInt(10000), dx_args.amount_in)
     /\ FeeRead <= 1000000)
        => /\ DecGt(dx_ret.val.effective_price, DecZero)
           /\ ~DecIsNeg(dx_ret.val.amount_out)

\* A positive trade at a positive spot price is quoted at the price zero.
ZeroPriceQuoted ==
    /\ PositiveTradeAndSpot
    /\ DecIsZero(dx_ret.val.effective_price)

\* A positive trade at a positive spot price is quoted at a negative price.
NegativePriceQuoted ==
    /\ PositiveTradeAndSpot
    /\ DecIsNeg(dx_ret.val.effective_price)

\* A fee above 1,000,000 turns the output of a trade quoted at a positive
\* price negative.
NegativeOutputByFee ==
    /\ PositiveTradeAndSpot
    /\ DecGt(dx_ret.val.effective_price, DecZero)
    /\ FeeRead > 1000000
    /\ DecIsNeg(dx_ret.val.amount_out)

\* An in-range trade quoted: a positive price and a positive output.
C25_Witness ==
    /\ PositiveTradeAndSpot
    /\ dx_args.amount_in = DecFromInt(10)
    /\ FeeRead = 3000
    /\ DecGt(dx_ret.val.effective_price, DecZero)
    /\ DecGt(dx_ret.val.amount_out, DecZero)

============================================================================
